---- MODULE Spec2Model ----
(***************************************************************************)
(* A model of cobyqa's TrustRegion / Models / Quadratic classes            *)
(* (src/cobyqa/models.py).                                                 *)
(*                                                                         *)
(* Numbers.  The program computes with IEEE doubles.  The model computes   *)
(* with exact rationals <<p, q>> (q > 0, lowest terms).  The inputs that   *)
(* are enumerated are small integers and halves, so every nonzero quantity *)
(* the program compares with a tolerance of the order of eps (2^-52) or    *)
(* tiny (2^-1022) is far larger than that tolerance: such a comparison is  *)
(* modelled by the comparison with zero it reduces to on these inputs.     *)
(* The columns of zmat hold square roots; a column is kept as a pair       *)
(* [s, u] that stands for sqrt(s) * u, with s a rational and u a rational  *)
(* vector, a form every operation of the program on zmat preserves.        *)
(*                                                                         *)
(* Indices.  The program counts from 0, the model from 1: the model's      *)
(* kopt, knew and k are the program's plus one; idz is a count and is the  *)
(* same number in both.                                                    *)
(***************************************************************************)
EXTENDS Integers, Sequences, FiniteSets, TLC

VARIABLES prob, tr, models, last, requested, ncall

vars == <<prob, tr, models, last, requested, ncall>>

-----------------------------------------------------------------------------
(* Exact arithmetic standing for numpy's float arithmetic.                 *)

Abs(a) == IF a < 0 THEN -a ELSE a

RECURSIVE GCD(_, _)
GCD(a, b) == IF b = 0 THEN a ELSE GCD(b, a % b)

NormBy(p, q, g) == IF q < 0 THEN <<-(p \div g), -(q \div g)>> ELSE <<p \div g, q \div g>>
Norm(p, q) == NormBy(p, q, GCD(Abs(p), Abs(q)))

R(i) == <<i, 1>>
Zero == <<0, 1>>
One == <<1, 1>>
Half == <<1, 2>>
Two == <<2, 1>>

RAdd(a, b) == IF a[2] = 1 /\ b[2] = 1 THEN <<a[1] + b[1], 1>>
              ELSE Norm(a[1] * b[2] + b[1] * a[2], a[2] * b[2])
RNeg(a) == <<-a[1], a[2]>>
RSub(a, b) == RAdd(a, RNeg(b))
RMul(a, b) == IF a[2] = 1 /\ b[2] = 1 THEN <<a[1] * b[1], 1>>
              ELSE Norm(a[1] * b[1], a[2] * b[2])
RInv(a) == IF a[1] < 0 THEN <<-a[2], -a[1]>> ELSE <<a[2], a[1]>>
RDiv(a, b) == RMul(a, RInv(b))
RSq(a) == <<a[1] * a[1], a[2] * a[2]>>
RAbs(a) == <<Abs(a[1]), a[2]>>
RSgn(a) == IF a[1] > 0 THEN 1 ELSE IF a[1] < 0 THEN -1 ELSE 0
RLt(a, b) == a[1] * b[2] < b[1] * a[2]
RLe(a, b) == a[1] * b[2] <= b[1] * a[2]
RMax(a, b) == IF RLt(a, b) THEN b ELSE a
RMin(a, b) == IF RLt(b, a) THEN b ELSE a
IsZero(a) == a[1] = 0

(* Vectors are sequences of rationals, matrices sequences of rows.         *)
(* Tup(f) is the function f on 1..n as a tuple: its components are         *)
(* computed once, when the tuple is built.                                 *)
Tup(f) == f \o <<>>
ZeroVec(n) == Tup([i \in 1..n |-> Zero])
VAdd(u, v) == Tup([i \in 1..Len(u) |-> RAdd(u[i], v[i])])
VSub(u, v) == Tup([i \in 1..Len(u) |-> RSub(u[i], v[i])])
VScale(c, u) == Tup([i \in 1..Len(u) |-> RMul(c, u[i])])

RECURSIVE SumTo(_, _)
SumTo(v, k) == IF k = 0 THEN Zero ELSE RAdd(SumTo(v, k - 1), v[k])
VSum(v) == SumTo(v, Len(v))
Dot(u, v) == VSum(Tup([i \in 1..Len(u) |-> RMul(u[i], v[i])]))

RECURSIVE MaxTo(_, _, _)
MaxTo(v, k, init) == IF k = 0 THEN init ELSE RMax(MaxTo(v, k - 1, init), v[k])
VMax(v, init) == MaxTo(v, Len(v), init)
RECURSIVE MinTo(_, _, _)
MinTo(v, k, init) == IF k = 0 THEN init ELSE RMin(MinTo(v, k - 1, init), v[k])
VMin(v, init) == MinTo(v, Len(v), init)

(* A x for a matrix A given by its rows.                                   *)
MatVec(A, x) == Tup([i \in 1..Len(A) |-> Dot(A[i], x)])
(* A^T y for a matrix A with ncol columns.                                 *)
MatTVec(A, y, ncol) ==
    Tup([j \in 1..ncol |-> VSum(Tup([i \in 1..Len(A) |-> RMul(A[i][j], y[i])]))])

Outer(u, v) == Tup([i \in 1..Len(u) |-> Tup([j \in 1..Len(v) |-> RMul(u[i], v[j])])])
MAdd(A, B) == Tup([i \in 1..Len(A) |-> VAdd(A[i], B[i])])
MSub(A, B) == Tup([i \in 1..Len(A) |-> VSub(A[i], B[i])])
Transpose(A, ncol) == Tup([j \in 1..ncol |-> Tup([i \in 1..Len(A) |-> A[i][j]])])
ZeroMat(m, n) == Tup([i \in 1..m |-> ZeroVec(n)])
Unit(m, k) == Tup([i \in 1..m |-> IF i = k THEN One ELSE Zero])

-----------------------------------------------------------------------------
(* The user's black-box functions, evaluated at absolute coordinates.      *)
(* "sphere" is the objective of the test suite; "abs1" and "cube" are not  *)
(* quadratic, so that the models differ from the function they model.      *)

FunTerm(id, t) ==
    CASE id \in {"sphere", "sqm1"} -> RSq(t)
      [] id = "abs1"   -> RAbs(RSub(t, One))
      [] id = "cube"   -> RMul(t, RSq(t))
      [] id = "sum1"   -> t
      [] id = "absm1"  -> RAbs(t)

Fun(id, x) ==
    RSub(VSum(Tup([i \in 1..Len(x) |-> FunTerm(id, x[i])])),
         IF id \in {"sum1", "sqm1", "absm1"} THEN One ELSE Zero)

(* TrustRegion._eval_con: the values of a vector of constraint functions.  *)
EvalCon(ids, x) == Tup([i \in 1..Len(ids) |-> Fun(ids[i], x)])

-----------------------------------------------------------------------------
(* zmat: column j stands for sqrt(zmat[j].s) * zmat[j].u.                  *)

RECURSIVE FirstNonzero(_, _)
FirstNonzero(u, k) ==
    IF k > Len(u) THEN 0 ELSE IF ~IsZero(u[k]) THEN k ELSE FirstNonzero(u, k + 1)

(* The unique representative of sqrt(s) * u whose first nonzero component  *)
(* of u is 1 or -1.                                                        *)
NormCol(s, u) ==
    LET f == FirstNonzero(u, 1)
    IN IF f = 0 \/ IsZero(s) THEN [s |-> Zero, u |-> ZeroVec(Len(u))]
       ELSE [s |-> RMul(s, RSq(u[f])), u |-> VScale(RInv(RAbs(u[f])), u)]

(* The sign J gives column j: the first idz columns are negative.          *)
JSign(idz, j) == IF j <= idz THEN R(-1) ELSE One

(* zmat[k, j] * zmat[i, j], a rational.                                    *)
ZProd(zmat, j, k, i) == RMul(zmat[j].s, RMul(zmat[j].u[k], zmat[j].u[i]))

(* utils.omega_product with a vector: Z J Z^T v.                           *)
OmegaVec(zmat, idz, v) ==
    LET npt == Len(v)
        w == Tup([j \in 1..Len(zmat) |->
                RMul(JSign(idz, j), RMul(zmat[j].s, Dot(zmat[j].u, v)))])
    IN Tup([i \in 1..npt |-> VSum(Tup([j \in 1..Len(zmat) |-> RMul(w[j], zmat[j].u[i])]))])

(* utils.omega_product with an index: column k of Z J Z^T.                 *)
OmegaCol(zmat, idz, k, npt) == OmegaVec(zmat, idz, Unit(npt, k))

-----------------------------------------------------------------------------
(* class Quadratic: a record [gq, pq, hq]; hq = <<>> is the program's None. *)

QHq(q) == IF q.hq = <<>> THEN ZeroMat(Len(q.gq), Len(q.gq)) ELSE q.hq

(* Quadratic.__init__ with a vector of values.                             *)
QuadraticNew(bmat, zmat, idz, fval) ==
    LET npt == Len(fval)
        n == Len(bmat[1])
    IN [gq |-> Tup([j \in 1..n |-> VSum(Tup([k \in 1..npt |-> RMul(bmat[k][j], fval[k])]))]),
        pq |-> OmegaVec(zmat, idz, fval),
        hq |-> <<>>]

(* Quadratic.__init__ with an index: the Lagrange polynomial of point k.   *)
QuadraticLag(bmat, zmat, idz, k, npt) ==
    [gq |-> bmat[k], pq |-> OmegaCol(zmat, idz, k, npt), hq |-> <<>>]

(* Quadratic.hessp *)
QHessp(q, x, xpt) ==
    LET xx == MatVec(xpt, x)
        hx == MatTVec(xpt, Tup([k \in 1..Len(xpt) |-> RMul(q.pq[k], xx[k])]), Len(x))
    IN IF q.hq = <<>> THEN hx ELSE VAdd(hx, MatVec(q.hq, x))

(* Quadratic.curv *)
QCurv(q, x, xpt) ==
    LET xx == MatVec(xpt, x)
        cx == VSum(Tup([k \in 1..Len(xpt) |-> RMul(q.pq[k], RSq(xx[k]))]))
    IN IF q.hq = <<>> THEN cx ELSE RAdd(cx, Dot(x, MatVec(q.hq, x)))

(* Quadratic.__call__ *)
QCall(q, x, xpt, kopt) ==
    LET d == VSub(x, xpt[kopt])
    IN RAdd(Dot(q.gq, d), RMul(Half, QCurv(q, d, xpt)))

(* Quadratic.grad *)
QGrad(q, x, xpt, kopt) == VAdd(q.gq, QHessp(q, VSub(x, xpt[kopt]), xpt))

(* Quadratic.shift_expansion_point *)
QShiftExpansionPoint(q, step, xpt) ==
    [q EXCEPT !.gq = VAdd(q.gq, QHessp(q, step, xpt))]

(* Quadratic.shift_interpolation_points *)
QShiftInterpolationPoints(q, xpt, kopt) ==
    LET n == Len(q.gq)
        hxpt == Tup([k \in 1..Len(xpt) |-> VSub(xpt[k], VScale(Half, xpt[kopt]))])
        temp == Outer(MatTVec(hxpt, q.pq, n), xpt[kopt])
    IN [q EXCEPT !.hq = MAdd(MAdd(QHq(q), temp), Transpose(temp, n))]

(* Quadratic.update that leaves the implicit coefficient of the replaced   *)
(* point in place.                                                         *)
QUpdateKeepPq(q, xpt, kopt, xold, bmat, zmat, idz, knew, diff) ==
    LET npt == Len(xpt)
        n == Len(q.gq)
        omega == OmegaCol(zmat, idz, knew, npt)
        hq1 == MAdd(QHq(q), Tup([i \in 1..n |-> VScale(RMul(q.pq[knew], xold[i]), xold)]))
        pq1 == VAdd(q.pq, VScale(diff, omega))
        xx == MatVec(xpt, xpt[kopt])
        temp == Tup([k \in 1..npt |-> RMul(omega[k], xx[k])])
        gq1 == VAdd(q.gq, VScale(diff, VAdd(bmat[knew], MatTVec(xpt, temp, n))))
    IN [gq |-> gq1, pq |-> pq1, hq |-> hq1]

(* Quadratic.update *)
QUpdate(q, xpt, kopt, xold, bmat, zmat, idz, knew, diff) ==
    LET npt == Len(xpt)
        n == Len(q.gq)
        omega == OmegaCol(zmat, idz, knew, npt)
        hq1 == MAdd(QHq(q), Tup([i \in 1..n |-> VScale(RMul(q.pq[knew], xold[i]), xold)]))
        pq0 == [q.pq EXCEPT ![knew] = Zero]
        pq1 == VAdd(pq0, VScale(diff, omega))
        xx == MatVec(xpt, xpt[kopt])
        temp == Tup([k \in 1..npt |-> RMul(omega[k], xx[k])])
        gq1 == VAdd(q.gq, VScale(diff, VAdd(bmat[knew], MatTVec(xpt, temp, n))))
    IN [gq |-> gq1, pq |-> pq1, hq |-> hq1]

-----------------------------------------------------------------------------
(* class Models: a record with the fields xl, xu, aub, bub, aeq, beq, xpt, *)
(* fval, rval, cvalub, cvaleq, bmat, zmat, idz, kopt, obj, obj_alt, cub,   *)
(* cub_alt, ceq, ceq_alt.                                                  *)

Col(M, i) == Tup([k \in 1..Len(M) |-> M[k][i]])

(* Models.resid at a point x with constraint values cubx, ceqx.            *)
Resid(m, x, cubx, ceqx) ==
    LET lub == VSub(MatVec(m.aub, x), m.bub)
        leq == VSub(MatVec(m.aeq, x), m.beq)
        c1 == VMax(lub, Zero)
        c2 == VMax(cubx, c1)
        c3 == VMax(Tup([i \in 1..Len(leq) |-> RAbs(leq[i])]), c2)
        c4 == VMax(Tup([i \in 1..Len(ceqx) |-> RAbs(ceqx[i])]), c3)
        c5 == VMax(VSub(x, m.xu), c4)
    IN VMax(VSub(m.xl, x), c5)

(* Models.resid with an integer: the residual of interpolation point k.    *)
ResidK(m, k) == Resid(m, m.xpt[k], m.cvalub[k], m.cvaleq[k])

(* The first displacement taken upwards whatever the upper bound.          *)
StepAUnclipped(xu, i, rhobeg) == rhobeg

(* Models.__init__, the first displacement along coordinate i.             *)
StepA(xu, i, rhobeg) ==
    IF RLe(RAbs(xu[i]), RMul(Half, rhobeg)) THEN RNeg(rhobeg) ELSE rhobeg

(* Models.__init__, the second displacement along coordinate i.            *)
StepB(xl, xu, i, rhobeg) ==
    IF RLe(RAbs(xl[i]), RMul(Half, rhobeg)) THEN RMin(RMul(Two, rhobeg), xu[i])
    ELSE IF RLe(RAbs(xu[i]), RMul(Half, rhobeg))
         THEN RMax(RNeg(RMul(Two, rhobeg)), xl[i])
         ELSE RNeg(rhobeg)

(* The shift of the pair schedule counted from the first point past 2n.    *)
PairShiftFromZero(k, n) == (k - 1 - 2 * n) \div n
(* The coordinate pair of the program's point k > 2n (k, ipt and jpt count *)
(* from 0 as in the program).                                              *)
PairShift(k, n) == (k - 1 - n) \div n
PairIpt(k, n) == (k - 1 - n) - PairShift(k, n) * n
(* The second coordinate of a schedule whose shift starts at 0.            *)
PairJptFromZero(k, n) == (PairIpt(k, n) + PairShift(k, n) - 1) % n
PairJpt(k, n) == (PairIpt(k, n) + PairShift(k, n)) % n

(* Models.__init__: row K of xpt (K = k + 1).                              *)
InitXptRow(K, n, xl, xu, rhobeg) ==
    LET k == K - 1
    IN Tup([i \in 1..n |->
          IF 1 <= k /\ k <= n
          THEN (IF i = k THEN StepA(xu, i, rhobeg) ELSE Zero)
          ELSE IF n < k /\ k <= 2 * n
          THEN (IF i = k - n THEN StepB(xl, xu, i, rhobeg) ELSE Zero)
          ELSE IF k > 2 * n
          THEN (IF i = PairIpt(k, n) + 1 \/ i = PairJpt(k, n) + 1
                THEN StepA(xu, i, rhobeg) ELSE Zero)
          ELSE Zero])

InitXpt(n, npt, xl, xu, rhobeg) ==
    Tup([K \in 1..npt |-> InitXptRow(K, n, xl, xu, rhobeg)])

(* Models.__init__: bmat, row r and column c.                              *)
InitBmatEntry(r, c, n, npt, xl, xu, rhobeg) ==
    LET sa == StepA(xu, c, rhobeg)
        sb == StepB(xl, xu, c, rhobeg)
        b0 == RNeg(RDiv(RAdd(sa, sb), RMul(sa, sb)))
        bk == RNeg(RDiv(Half, sa))
    IN IF npt <= c + n
       THEN (IF r = 1 THEN RNeg(RInv(sa))
             ELSE IF r = c + 1 THEN RInv(sa)
             ELSE IF r = npt + c THEN RNeg(RMul(Half, RSq(rhobeg)))
             ELSE Zero)
       ELSE (IF r = 1 THEN b0
             ELSE IF r = n + c + 1 THEN bk
             ELSE IF r = c + 1 THEN RSub(RNeg(b0), bk)
             ELSE Zero)

InitBmat(n, npt, xl, xu, rhobeg) ==
    Tup([r \in 1..(npt + n) |-> Tup([c \in 1..n |-> InitBmatEntry(r, c, n, npt, xl, xu, rhobeg)])])

(* Models.__init__: column c of zmat.                                      *)
InitZmatCol(c, n, npt, xl, xu, rhobeg) ==
    IF c <= n
    THEN LET sa == StepA(xu, c, rhobeg)
             sb == StepB(xl, xu, c, rhobeg)
             z0 == RInv(RMul(sa, sb))
             zk == RDiv(Half, RSq(rhobeg))
         IN NormCol(Two, Tup([r \in 1..npt |->
                IF r = 1 THEN z0
                ELSE IF r = n + c + 1 THEN zk
                ELSE IF r = c + 1 THEN RSub(RNeg(z0), zk)
                ELSE Zero]))
    ELSE LET k == c + n
             v == RInv(RSq(rhobeg))
         IN NormCol(One, Tup([r \in 1..npt |->
                IF r = PairIpt(k, n) + 2 \/ r = PairJpt(k, n) + 2 THEN RNeg(v)
                ELSE IF r = 1 \/ r = k + 1 THEN v
                ELSE Zero]))

InitZmat(n, npt, xl, xu, rhobeg) ==
    Tup([c \in 1..(npt - n - 1) |-> InitZmatCol(c, n, npt, xl, xu, rhobeg)])

(* Models.new_model with a vector of values.                               *)
NewModel(m, fval) ==
    QShiftExpansionPoint(QuadraticNew(m.bmat, m.zmat, m.idz, fval), m.xpt[m.kopt], m.xpt)

(* Models.new_model with an index.                                         *)
NewModelLag(m, k) ==
    QShiftExpansionPoint(QuadraticLag(m.bmat, m.zmat, m.idz, k, Len(m.xpt)),
                         m.xpt[m.kopt], m.xpt)

(* Models.__init__: the residuals and the models, from the data m0 of the  *)
(* interpolation set.                                                      *)
ModelsInitModels(m0) ==
    [xl |-> m0.xl, xu |-> m0.xu, aub |-> m0.aub, bub |-> m0.bub,
     aeq |-> m0.aeq, beq |-> m0.beq, xpt |-> m0.xpt, fval |-> m0.fval,
     rval |-> Tup([k \in 1..Len(m0.xpt) |-> ResidK(m0, k)]),
     cvalub |-> m0.cvalub, cvaleq |-> m0.cvaleq,
     bmat |-> m0.bmat, zmat |-> m0.zmat, idz |-> 0, kopt |-> 1,
     obj |-> NewModel(m0, m0.fval), obj_alt |-> NewModel(m0, m0.fval),
     cub |-> Tup([i \in 1..Len(m0.cvalub[1]) |-> NewModel(m0, Col(m0.cvalub, i))]),
     cub_alt |-> Tup([i \in 1..Len(m0.cvalub[1]) |-> NewModel(m0, Col(m0.cvalub, i))]),
     ceq |-> Tup([i \in 1..Len(m0.cvaleq[1]) |-> NewModel(m0, Col(m0.cvaleq, i))]),
     ceq_alt |-> Tup([i \in 1..Len(m0.cvaleq[1]) |-> NewModel(m0, Col(m0.cvaleq, i))])]

(* Models.__init__: the interpolation set xpt, the values of the functions *)
(* on it and the factorization; sxl and sxu are the shifted bounds.        *)
ModelsInitSet(fun, cubf, ceqf, x0, sxl, sxu, Aub, bub, Aeq, beq, npt, rhobeg, xpt) ==
    ModelsInitModels(
        [xl |-> sxl, xu |-> sxu,
         aub |-> Aub, bub |-> VSub(bub, MatVec(Aub, x0)),
         aeq |-> Aeq, beq |-> VSub(beq, MatVec(Aeq, x0)),
         xpt |-> xpt,
         fval |-> Tup([k \in 1..npt |-> Fun(fun, VAdd(x0, xpt[k]))]),
         cvalub |-> Tup([k \in 1..npt |-> EvalCon(cubf, VAdd(x0, xpt[k]))]),
         cvaleq |-> Tup([k \in 1..npt |-> EvalCon(ceqf, VAdd(x0, xpt[k]))]),
         bmat |-> InitBmat(Len(x0), npt, sxl, sxu, rhobeg),
         zmat |-> InitZmat(Len(x0), npt, sxl, sxu, rhobeg),
         idz |-> 0, kopt |-> 1])

(* Models.__init__; x0 is the origin, the other arguments are the user's.  *)
ModelsInit(fun, cubf, ceqf, x0, xl, xu, Aub, bub, Aeq, beq, npt, rhobeg) ==
    ModelsInitSet(fun, cubf, ceqf, x0, VSub(xl, x0), VSub(xu, x0), Aub, bub, Aeq, beq,
                  npt, rhobeg,
                  InitXpt(Len(x0), npt, VSub(xl, x0), VSub(xu, x0), rhobeg))

(* Models.obj, Models.cub, Models.ceq: the models' values at x.            *)
ModelObj(m, x) == RAdd(m.fval[m.kopt], QCall(m.obj, x, m.xpt, m.kopt))
ModelCub(m, x, i) == RAdd(m.cvalub[m.kopt][i], QCall(m.cub[i], x, m.xpt, m.kopt))
ModelCeq(m, x, i) == RAdd(m.cvaleq[m.kopt][i], QCall(m.ceq[i], x, m.xpt, m.kopt))

(* Quadratic.shift_expansion_point for each model of a list.               *)
ShiftExpansionPoints(qs, step, xpt) ==
    Tup([i \in 1..Len(qs) |-> QShiftExpansionPoint(qs[i], step, xpt)])

(* The kopt setter of Models: the expansion point of every model moves by  *)
(* step = xpt[knew] - xopt.                                                *)
SetKoptBy(m, knew, step) ==
    [m EXCEPT !.obj = QShiftExpansionPoint(m.obj, step, m.xpt),
              !.obj_alt = QShiftExpansionPoint(m.obj_alt, step, m.xpt),
              !.cub = ShiftExpansionPoints(m.cub, step, m.xpt),
              !.cub_alt = ShiftExpansionPoints(m.cub_alt, step, m.xpt),
              !.ceq = ShiftExpansionPoints(m.ceq, step, m.xpt),
              !.ceq_alt = ShiftExpansionPoints(m.ceq_alt, step, m.xpt),
              !.kopt = knew]

SetKopt(m, knew) ==
    IF m.kopt = knew THEN m ELSE SetKoptBy(m, knew, VSub(m.xpt[knew], m.xpt[m.kopt]))

(* shift_constraints that moves the bounds but not the right-hand sides.   *)
ShiftConstraintsBoundsOnly(m, x) ==
    [m EXCEPT !.xl = VSub(m.xl, x), !.xu = VSub(m.xu, x)]

(* Models.shift_constraints *)
ShiftConstraints(m, x) ==
    [m EXCEPT !.xl = VSub(m.xl, x), !.xu = VSub(m.xu, x),
              !.bub = VSub(m.bub, MatVec(m.aub, x)),
              !.beq = VSub(m.beq, MatVec(m.aeq, x))]

(* Models.shift_origin *)
ModelsShiftOrigin(m) ==
    LET npt == Len(m.xpt)
        n == Len(m.xl)
        nz == Len(m.zmat)
        xopt == m.xpt[m.kopt]
        xoptsq == Dot(xopt, xopt)
        qoptsq == RMul(<<1, 4>>, xoptsq)
        updt == Tup([k \in 1..npt |-> RSub(Dot(m.xpt[k], xopt), RMul(Half, xoptsq))])
        hxpt == Tup([k \in 1..npt |-> VSub(m.xpt[k], VScale(Half, xopt))])
        step == Tup([k \in 1..npt |-> VAdd(VScale(updt[k], hxpt[k]), VScale(qoptsq, xopt))])
        (* the sum over k of outer(bmat[k], step[k]) *)
        acc == Tup([i \in 1..n |-> Tup([j \in 1..n |->
                  VSum(Tup([k \in 1..npt |-> RMul(m.bmat[k][i], step[k][j])]))])])
        (* column j of temp is sqrt(zmat[j].s) * t[j] *)
        t == Tup([j \in 1..nz |->
                VAdd(VScale(RMul(qoptsq, VSum(m.zmat[j].u)), xopt),
                     MatTVec(hxpt, Tup([k \in 1..npt |-> RMul(m.zmat[j].u[k], updt[k])]), n))])
        sg(j) == RMul(JSign(m.idz, j), m.zmat[j].s)
        bmat1 == Tup([r \in 1..(npt + n) |-> Tup([c \in 1..n |->
                    IF r <= npt
                    THEN RAdd(m.bmat[r][c],
                              VSum(Tup([j \in 1..nz |-> RMul(sg(j), RMul(m.zmat[j].u[r], t[j][c]))])))
                    ELSE RAdd(RAdd(m.bmat[r][c], RAdd(acc[r - npt][c], acc[c][r - npt])),
                              VSum(Tup([j \in 1..nz |-> RMul(sg(j), RMul(t[j][r - npt], t[j][c]))])))])])
        sh(q) == QShiftInterpolationPoints(q, m.xpt, m.kopt)
        m1 == [m EXCEPT !.bmat = bmat1,
                        !.obj = sh(m.obj), !.obj_alt = sh(m.obj_alt),
                        !.cub = Tup([i \in 1..Len(m.cub) |-> sh(m.cub[i])]),
                        !.cub_alt = Tup([i \in 1..Len(m.cub_alt) |-> sh(m.cub_alt[i])]),
                        !.ceq = Tup([i \in 1..Len(m.ceq) |-> sh(m.ceq[i])]),
                        !.ceq_alt = Tup([i \in 1..Len(m.ceq_alt) |-> sh(m.ceq_alt[i])])]
        m2 == ShiftConstraints(m1, xopt)
    IN [m2 EXCEPT !.xpt = Tup([k \in 1..npt |-> VSub(m.xpt[k], xopt)])]

(* Models._beta, from check = xstep * (xstep / 2 + xxopt).                 *)
BetaFrom(m, step, check) ==
    LET npt == Len(m.xpt)
        n == Len(m.xl)
        nz == Len(m.zmat)
        xopt == m.xpt[m.kopt]
        stepsq == Dot(step, step)
        xoptsq == Dot(xopt, xopt)
        stx == Dot(step, xopt)
        (* temp[j]^2, temp = zalt^T check *)
        beta0 == VSum(Tup([j \in 1..nz |->
                    RMul(RNeg(JSign(m.idz, j)),
                         RMul(m.zmat[j].s, RSq(Dot(m.zmat[j].u, check))))]))
        ztemp == OmegaVec(m.zmat, m.idz, check)
        top == Tup([k \in 1..npt |->
                  RAdd(RAdd(Dot(m.bmat[k], step), ztemp[k]),
                       IF k = m.kopt THEN One ELSE Zero)])
        bot0 == MatTVec(Tup([k \in 1..npt |-> m.bmat[k]]), check, n)
        bot == VAdd(bot0, MatVec(Tup([i \in 1..n |-> m.bmat[npt + i]]), step))
        bsp == RAdd(Dot(bot0, step), Dot(bot, step))
        beta == RSub(RAdd(beta0,
                          RAdd(RSq(stx),
                               RMul(stepsq, RAdd(RAdd(xoptsq, RMul(Two, stx)),
                                                 RMul(Half, stepsq))))),
                     bsp)
    IN [beta |-> beta, vlag |-> top \o bot]

(* Models._beta: beta and vlag (of length npt + n) for the step.           *)
Beta(m, step) ==
    LET xstep == MatVec(m.xpt, step)
        xxopt == MatVec(m.xpt, m.xpt[m.kopt])
    IN BetaFrom(m, step,
                Tup([k \in 1..Len(m.xpt) |->
                       RMul(xstep[k], RAdd(RMul(Half, xstep[k]), xxopt[k]))]))

(* numpy.argmax: the first index of a maximal component.                   *)
RECURSIVE ArgMaxFrom(_, _, _)
ArgMaxFrom(v, k, best) ==
    IF k > Len(v) THEN best
    ELSE ArgMaxFrom(v, k + 1, IF RLt(v[best], v[k]) THEN k ELSE best)
ArgMax(v) == ArgMaxFrom(v, 2, 1)

(* numpy.argmin: the first index of a minimal component.                   *)
RECURSIVE ArgMinFrom(_, _, _)
ArgMinFrom(v, k, best) ==
    IF k > Len(v) THEN best
    ELSE ArgMinFrom(v, k + 1, IF RLt(v[k], v[best]) THEN k ELSE best)
ArgMin(v) == ArgMinFrom(v, 2, 1)

(* The squared distances of the interpolation points from xopt.            *)
DistSq(m) ==
    Tup([k \in 1..Len(m.xpt) |->
        LET d == VSub(m.xpt[k], m.xpt[m.kopt]) IN Dot(d, d)])

(* Models._get_point_to_remove *)
GetPointToRemove(m, beta, vlag) ==
    LET npt == Len(m.xpt)
        nz == Len(m.zmat)
        alpha == Tup([k \in 1..npt |->
                    VSum(Tup([j \in 1..nz |-> RMul(JSign(m.idz, j), ZProd(m.zmat, j, k, k))]))])
        sigma == Tup([k \in 1..npt |-> RAdd(RSq(vlag[k]), RMul(beta, alpha[k]))])
        dsq == DistSq(m)
    IN ArgMax(Tup([k \in 1..npt |-> RMul(RAbs(sigma[k]), RSq(dsq[k]))]))

(* linalg.givens(zmat, cval, sval, j, jdz, 1) with cval = zmat[knew, jdz]  *)
(* and sval = zmat[knew, j]: the rotation of columns j and jdz that puts   *)
(* hypot(cval, sval) at zmat[knew, jdz] and zero at zmat[knew, j].         *)
Givens(zmat, knew, j, jdz) ==
    LET a == zmat[jdz].s
        u == zmat[jdz].u
        b == zmat[j].s
        v == zmat[j].u
        hsq == RAdd(RMul(a, RSq(u[knew])), RMul(b, RSq(v[knew])))
        ndz == NormCol(RInv(hsq),
                       VAdd(VScale(RMul(a, u[knew]), u), VScale(RMul(b, v[knew]), v)))
        nj == NormCol(RDiv(RMul(a, b), hsq),
                      VSub(VScale(u[knew], v), VScale(v[knew], u)))
    IN [zmat EXCEPT ![jdz] = ndz, ![j] = nj]

(* Models.update, the loop that puts zeros in row knew of zmat.  j and jdz *)
(* are column numbers of the model (the program's plus one).               *)
RECURSIVE GivensLoop(_, _, _, _, _)
GivensLoop(zmat, knew, idz, j, jdz) ==
    IF j > Len(zmat) THEN [zmat |-> zmat, jdz |-> jdz]
    ELSE IF j = idz + 1 THEN GivensLoop(zmat, knew, idz, j + 1, j)
    ELSE IF ~IsZero(zmat[j].s) /\ ~IsZero(zmat[j].u[knew])
         THEN GivensLoop(Givens(zmat, knew, j, jdz), knew, idz, j + 1, jdz)
         ELSE GivensLoop(zmat, knew, idz, j + 1, jdz)

(* idz after the update when the loop of the rotations runs one column too *)
(* far, so that jdz = idz for idz = nz too.                                *)
IdzAfterUpdateLongLoop(idz, nz, sgnSigma, sgnBeta) ==
    LET jdz == IF 1 <= idz /\ idz <= nz THEN idz ELSE 0
    IN IF jdz = 0
       THEN (IF sgnSigma < 0 THEN (IF idz = 0 THEN 1 ELSE idz - 1) ELSE idz)
       ELSE (IF sgnSigma <= 0 THEN (IF sgnBeta < 0 THEN idz + 1 ELSE idz - 1)
             ELSE idz)

(* Models.update: idz after the update, from idz before it, the number nz  *)
(* of columns of zmat and the signs of sigma and beta.                     *)
IdzAfterUpdate(idz, nz, sgnSigma, sgnBeta) ==
    LET jdz == IF 1 <= idz /\ idz <= nz - 1 THEN idz ELSE 0
    IN IF jdz = 0
       THEN (IF sgnSigma < 0 THEN (IF idz = 0 THEN 1 ELSE idz - 1) ELSE idz)
       ELSE (IF sgnSigma <= 0 THEN (IF sgnBeta < 0 THEN idz + 1 ELSE idz - 1)
             ELSE idz)

(* Models.update: whether the update swaps column 0 with column idz.       *)
ReduceInUpdate(idz, nz, sgnSigma, sgnBeta) ==
    LET jdz == IF 1 <= idz /\ idz <= nz - 1 THEN idz ELSE 0
    IN IF jdz = 0 THEN sgnSigma < 0 /\ idz # 0
       ELSE sgnSigma <= 0 /\ sgnBeta >= 0

(* Models.update: zmat after the update of the columns 0 and jdz.          *)
ZmatAfterUpdate(zmat, idz, knew, jdz, beta, tau, sigma, omega, vl) ==
    LET nz == Len(zmat)
        z1 == IF jdz = 1
              THEN [zmat EXCEPT ![1] =
                      NormCol(RDiv(zmat[1].s, RAbs(sigma)),
                              VSub(VScale(tau, zmat[1].u),
                                   VScale(zmat[1].u[knew], vl)))]
              ELSE LET kd == IF RLe(Zero, beta) THEN jdz ELSE 1
                       jd == IF RLe(Zero, beta) THEN 1 ELSE jdz
                       a == zmat[kd].s
                       u == zmat[kd].u
                       b == zmat[jd].s
                       v == zmat[jd].u
                       den == RAdd(RMul(RAbs(beta), RMul(a, RSq(u[knew]))), RSq(tau))
                       ca == RDiv(RMul(v[knew], beta), sigma)
                       cb == RDiv(RMul(v[knew], tau), sigma)
                   IN [zmat EXCEPT
                         ![kd] = NormCol(RDiv(a, den),
                                         VSub(VScale(tau, u), VScale(u[knew], vl))),
                         ![jd] = NormCol(RDiv(RMul(b, RAbs(sigma)), den),
                                         VSub(v, VAdd(VScale(ca, omega), VScale(cb, vl))))]
        idz1 == IdzAfterUpdate(idz, nz, RSgn(sigma), RSgn(beta))
    IN IF ReduceInUpdate(idz, nz, RSgn(sigma), RSgn(beta))
       THEN [z1 EXCEPT ![1] = z1[idz1 + 1], ![idz1 + 1] = z1[1]]
       ELSE z1

(* Models.update: bmat after the update.                                   *)
BmatAfterUpdate(bmat, npt, n, knew, alpha, beta, tau, sigma, omega, vlag) ==
    LET bsav == bmat[knew]
        cosv == Tup([j \in 1..n |->
                   RDiv(RSub(RMul(alpha, vlag[npt + j]), RMul(tau, bsav[j])), sigma)])
        sinv == Tup([j \in 1..n |->
                   RDiv(RAdd(RMul(tau, vlag[npt + j]), RMul(beta, bsav[j])), sigma)])
        low(i, j) == RAdd(bmat[npt + i][j],
                          RSub(RMul(cosv[j], vlag[npt + i]), RMul(sinv[j], bsav[i])))
    IN Tup([r \in 1..(npt + n) |-> Tup([j \in 1..n |->
          IF r <= npt
          THEN RAdd(bmat[r][j], RSub(RMul(cosv[j], vlag[r]), RMul(sinv[j], omega[r])))
          ELSE IF r - npt <= j THEN low(r - npt, j) ELSE low(j, r - npt)])])

(* Models.update, the end: the models are updated from the data mc of the  *)
(* interpolation set after the replacement of point knew (xold).           *)
ModelsUpdateModels(m, mc, xold, knew, dfx, dcubx, dceqx) ==
    [mc EXCEPT
       !.obj = QUpdate(m.obj, mc.xpt, mc.kopt, xold, mc.bmat, mc.zmat, mc.idz, knew, dfx),
       !.obj_alt = NewModel(mc, mc.fval),
       !.cub = Tup([i \in 1..Len(m.cub) |->
                  QUpdate(m.cub[i], mc.xpt, mc.kopt, xold, mc.bmat, mc.zmat, mc.idz,
                          knew, dcubx[i])]),
       !.cub_alt = Tup([i \in 1..Len(m.cub) |-> NewModel(mc, Col(mc.cvalub, i))]),
       !.ceq = Tup([i \in 1..Len(m.ceq) |->
                  QUpdate(m.ceq[i], mc.xpt, mc.kopt, xold, mc.bmat, mc.zmat, mc.idz,
                          knew, dceqx[i])]),
       !.ceq_alt = Tup([i \in 1..Len(m.ceq) |-> NewModel(mc, Col(mc.cvaleq, i))])]

(* Models.update, after the factorization (b1, z1, idz1) is updated: the   *)
(* data of point knew are replaced; rval[knew] is set before xpt[knew].    *)
ModelsUpdatePoint(m, step, fx, cubx, ceqx, knew, b1, z1, idz1) ==
    LET xnew == VAdd(m.xpt[m.kopt], step)
        ma == [m EXCEPT !.bmat = b1, !.zmat = z1, !.idz = idz1,
                        !.fval[knew] = fx, !.cvalub[knew] = cubx,
                        !.cvaleq[knew] = ceqx]
        mb == [ma EXCEPT !.rval[knew] = ResidK(ma, knew)]
    IN ModelsUpdateModels(m, [mb EXCEPT !.xpt[knew] = xnew], m.xpt[knew], knew,
          RSub(fx, ModelObj(m, xnew)),
          Tup([i \in 1..Len(m.cub) |-> RSub(cubx[i], ModelCub(m, xnew, i))]),
          Tup([i \in 1..Len(m.ceq) |-> RSub(ceqx[i], ModelCeq(m, xnew, i))]))

(* Models.update, after the rotations (z0, jdz): sigma is tested and the   *)
(* factorization updated.  vlag0 is the vlag of _beta.                     *)
ModelsUpdateFactor(m, step, fx, cubx, ceqx, knew, beta, vlag0, z0, jdz, omega) ==
    LET npt == Len(m.xpt)
        alpha == omega[knew]
        tau == vlag0[knew]
        sigma == RAdd(RMul(alpha, beta), RSq(tau))
        vlag == [vlag0 EXCEPT ![knew] = RSub(vlag0[knew], One)]
    IN IF IsZero(sigma)
       THEN [ok |-> FALSE, knew |-> knew, m |-> [m EXCEPT !.zmat = z0]]
       ELSE [ok |-> TRUE, knew |-> knew,
             m |-> ModelsUpdatePoint(m, step, fx, cubx, ceqx, knew,
                     BmatAfterUpdate(m.bmat, npt, Len(m.xl), knew, alpha, beta, tau,
                                     sigma, omega, vlag),
                     ZmatAfterUpdate(z0, m.idz, knew, jdz, beta, tau, sigma, omega,
                                     SubSeq(vlag, 1, npt)),
                     IdzAfterUpdate(m.idz, Len(m.zmat), RSgn(sigma), RSgn(beta)))]

(* Models.update, after the point to remove is known: the rotations and    *)
(* column knew of Z J Z^T.                                                 *)
ModelsUpdateRotate(m, step, fx, cubx, ceqx, knew, bv, gl) ==
    ModelsUpdateFactor(m, step, fx, cubx, ceqx, knew, bv.beta, bv.vlag, gl.zmat, gl.jdz,
        Tup([k \in 1..Len(m.xpt) |->
               RAdd(RMul(IF m.idz = 0 THEN One ELSE R(-1), ZProd(gl.zmat, 1, knew, k)),
                    IF gl.jdz = 1 THEN Zero ELSE ZProd(gl.zmat, gl.jdz, knew, k))]))

(* Models.update, after _beta: the point to remove.                        *)
ModelsUpdateAt(m, step, fx, cubx, ceqx, knew, bv) ==
    ModelsUpdateRotate(m, step, fx, cubx, ceqx, knew, bv,
                       GivensLoop(m.zmat, knew, m.idz, 2, 1))

ModelsUpdateWith(m, step, fx, cubx, ceqx, knewArg, bv) ==
    ModelsUpdateAt(m, step, fx, cubx, ceqx,
                   IF knewArg = 0 THEN GetPointToRemove(m, bv.beta, bv.vlag) ELSE knewArg,
                   bv)

(* Models.update.  knew = 0 is the program's None.  The result tells       *)
(* whether ZeroDivisionError was raised, the replaced index, and the       *)
(* Models object as the call leaves it.                                    *)
ModelsUpdate(m, step, fx, cubx, ceqx, knewArg) ==
    ModelsUpdateWith(m, step, fx, cubx, ceqx, knewArg, Beta(m, step))

(* Models.reset_models *)
ModelsResetModels(m) ==
    [m EXCEPT !.obj = m.obj_alt, !.cub = m.cub_alt, !.ceq = m.ceq_alt]

-----------------------------------------------------------------------------
(* class TrustRegion: a record with the fields xbase, penub, peneq, lmlub, *)
(* lmleq, lmnlub, lmnleq, knew (0 is the program's None) and options; its  *)
(* Models object is the record m.                                          *)

(* x > tiny * y and x > tol * y for the nonnegative x and the y of the     *)
(* model: tiny * y and tol * y are positive and below every positive x.    *)
AboveTiny(x) == RLt(Zero, x)
(* x < tol and x <= tol for the x of the model.                            *)
BelowTol(x) == RLe(x, Zero)

PosPart(v) == Tup([i \in 1..Len(v) |-> RMax(Zero, v[i])])
HalfPenSq(pen, v) == RMul(RMul(Half, pen), Dot(v, v))

(* A merit function that keeps the inequality terms, with the coefficient  *)
(* 1, when penub is zero.                                                  *)
MeritKeepsTerms(t, m, x, fx, cubx, ceqx) ==
    LET penub == IF IsZero(t.penub) THEN One ELSE t.penub
        a1 == HalfPenSq(penub,
                 PosPart(VAdd(VSub(MatVec(m.aub, x), m.bub),
                              VScale(RInv(penub), t.lmlub))))
        a2 == HalfPenSq(penub, PosPart(VAdd(cubx, VScale(RInv(penub), t.lmnlub))))
        a3 == IF AboveTiny(RAbs(t.peneq))
              THEN HalfPenSq(t.peneq,
                     VAdd(VSub(MatVec(m.aeq, x), m.beq), VScale(RInv(t.peneq), t.lmleq)))
              ELSE Zero
        a4 == IF AboveTiny(RAbs(t.peneq))
              THEN HalfPenSq(t.peneq, VAdd(ceqx, VScale(RInv(t.peneq), t.lmnleq)))
              ELSE Zero
    IN RAdd(RAdd(fx, a1), RAdd(a2, RAdd(a3, a4)))
(* TrustRegion.__call__ without model: the merit function at x.            *)
Merit(t, m, x, fx, cubx, ceqx) ==
    LET a1 == IF AboveTiny(RAbs(t.penub))
              THEN HalfPenSq(t.penub,
                     PosPart(VAdd(VSub(MatVec(m.aub, x), m.bub),
                                  VScale(RInv(t.penub), t.lmlub))))
              ELSE Zero
        a2 == IF AboveTiny(RAbs(t.penub))
              THEN HalfPenSq(t.penub, PosPart(VAdd(cubx, VScale(RInv(t.penub), t.lmnlub))))
              ELSE Zero
        a3 == IF AboveTiny(RAbs(t.peneq))
              THEN HalfPenSq(t.peneq,
                     VAdd(VSub(MatVec(m.aeq, x), m.beq), VScale(RInv(t.peneq), t.lmleq)))
              ELSE Zero
        a4 == IF AboveTiny(RAbs(t.peneq))
              THEN HalfPenSq(t.peneq, VAdd(ceqx, VScale(RInv(t.peneq), t.lmnleq)))
              ELSE Zero
    IN RAdd(RAdd(fx, a1), RAdd(a2, RAdd(a3, a4)))

(* TrustRegion.__call__ with model=True: the merit function of the models. *)
MeritModel(t, m, x) ==
    LET a1 == IF AboveTiny(RAbs(t.penub))
              THEN HalfPenSq(t.penub,
                     PosPart(VAdd(VSub(MatVec(m.aub, x), m.bub),
                                  VScale(RInv(t.penub), t.lmlub))))
              ELSE Zero
        a2 == IF AboveTiny(RAbs(t.penub))
              THEN HalfPenSq(t.penub,
                     PosPart(Tup([i \in 1..Len(m.cub) |->
                        RAdd(RDiv(t.lmnlub[i], t.penub), ModelCub(m, x, i))])))
              ELSE Zero
        a3 == IF AboveTiny(RAbs(t.peneq))
              THEN HalfPenSq(t.peneq,
                     VAdd(VSub(MatVec(m.aeq, x), m.beq), VScale(RInv(t.peneq), t.lmleq)))
              ELSE Zero
        a4 == IF AboveTiny(RAbs(t.peneq))
              THEN HalfPenSq(t.peneq,
                     Tup([i \in 1..Len(m.ceq) |->
                        RAdd(RDiv(t.lmnleq[i], t.peneq), ModelCeq(m, x, i))]))
              ELSE Zero
    IN RAdd(RAdd(ModelObj(m, x), a1), RAdd(a2, RAdd(a3, a4)))

(* The merit of interpolation point k.                                     *)
MeritK(t, m, k) == Merit(t, m, m.xpt[k], m.fval[k], m.cvalub[k], m.cvaleq[k])

(* less_merit that takes an equal merit for a smaller one.                 *)
LessMeritOrEqual(t, mval1, rval1, mval2, rval2) ==
    IF RLe(mval1, mval2) THEN TRUE
    ELSE IF BelowTol(RMax(t.penub, t.peneq))
         THEN BelowTol(RAbs(RSub(mval1, mval2))) /\ RLt(rval1, rval2)
         ELSE FALSE

(* TrustRegion.less_merit *)
LessMerit(t, mval1, rval1, mval2, rval2) ==
    IF RLt(mval1, mval2) THEN TRUE
    ELSE IF BelowTol(RMax(t.penub, t.peneq))
         THEN BelowTol(RAbs(RSub(mval1, mval2))) /\ RLt(rval1, rval2)
         ELSE FALSE

(* TrustRegion.get_best_point: the scan of the points k, k + 1, ...; mk is *)
(* the merit of point k.                                                   *)
RECURSIVE BestFrom(_, _, _, _, _)
BestStep(t, m, k, kopt, mopt, mk) ==
    IF k # kopt /\ LessMerit(t, mk, m.rval[k], mopt, m.rval[kopt])
    THEN BestFrom(t, m, k + 1, k, mk)
    ELSE BestFrom(t, m, k + 1, kopt, mopt)

BestFrom(t, m, k, kopt, mopt) ==
    IF k > Len(m.xpt) THEN kopt ELSE BestStep(t, m, k, kopt, mopt, MeritK(t, m, k))

GetBestPoint(t, m) == BestFrom(t, m, 1, m.kopt, MeritK(t, m, m.kopt))

(* TrustRegion.update_multipliers: the constraints held active at xopt.    *)
ActiveLub(m) ==
    LET rub == VSub(MatVec(m.aub, m.xpt[m.kopt]), m.bub)
    IN Tup([i \in 1..Len(m.bub) |-> BelowTol(RAbs(rub[i]))])
ActiveNlub(m) ==
    Tup([i \in 1..Len(m.cub) |-> BelowTol(RAbs(m.cvalub[m.kopt][i]))])

RECURSIVE CountTo(_, _)
CountTo(b, k) == IF k = 0 THEN 0 ELSE CountTo(b, k - 1) + (IF b[k] THEN 1 ELSE 0)
Count(b) == CountTo(b, Len(b))

(* The number of components nnls returns, and how many of them it keeps    *)
(* nonnegative.                                                            *)
NnlsLen(m) == Count(ActiveLub(m)) + Count(ActiveNlub(m)) + Len(m.beq) + Len(m.ceq)
NnlsNonneg(m) == Count(ActiveLub(m)) + Count(ActiveNlub(m))

(* update_multipliers without the two fill(0.): the multiplier of an       *)
(* inactive inequality constraint keeps its value.                         *)
UpdateMultipliersNoFill(t, m, lm) ==
    IF Len(m.bub) + Len(m.cub) + Len(m.beq) + Len(m.ceq) > 0
    THEN LET ilub == ActiveLub(m)
             inlub == ActiveNlub(m)
             mlub == Count(ilub)
             mnlub == Count(inlub)
             mleq == Len(m.beq)
         IN [t EXCEPT
               !.lmlub = Tup([i \in 1..Len(m.bub) |->
                            IF ilub[i] THEN lm[CountTo(ilub, i)] ELSE t.lmlub[i]]),
               !.lmnlub = Tup([i \in 1..Len(m.cub) |->
                            IF inlub[i] THEN lm[mlub + CountTo(inlub, i)]
                            ELSE t.lmnlub[i]]),
               !.lmleq = Tup([i \in 1..mleq |-> lm[mlub + mnlub + i]]),
               !.lmnleq = Tup([i \in 1..(Len(lm) - mlub - mnlub - mleq) |->
                            lm[mlub + mnlub + mleq + i]])]
    ELSE t
(* TrustRegion.update_multipliers; lm is the vector nnls returns.          *)
UpdateMultipliers(t, m, lm) ==
    IF Len(m.bub) + Len(m.cub) + Len(m.beq) + Len(m.ceq) > 0
    THEN LET ilub == ActiveLub(m)
             inlub == ActiveNlub(m)
             mlub == Count(ilub)
             mnlub == Count(inlub)
             mleq == Len(m.beq)
         IN [t EXCEPT
               !.lmlub = Tup([i \in 1..Len(m.bub) |->
                            IF ilub[i] THEN lm[CountTo(ilub, i)] ELSE Zero]),
               !.lmnlub = Tup([i \in 1..Len(m.cub) |->
                            IF inlub[i] THEN lm[mlub + CountTo(inlub, i)] ELSE Zero]),
               !.lmleq = Tup([i \in 1..mleq |-> lm[mlub + mnlub + i]]),
               !.lmnleq = Tup([i \in 1..(Len(lm) - mlub - mnlub - mleq) |->
                            lm[mlub + mnlub + mleq + i]])]
    ELSE t

(* The doubling that activates a coefficient whatever the constraints.     *)
DoublePenaltiesAlways(t, m) ==
    [t EXCEPT
       !.penub = IF RLt(Zero, t.penub) THEN RMul(Two, t.penub) ELSE One,
       !.peneq = IF RLt(Zero, t.peneq) THEN RMul(Two, t.peneq) ELSE One]
(* TrustRegion.update_penalty_coefficients: one doubling of the penalty    *)
(* coefficients.                                                           *)
DoublePenalties(t, m) ==
    [t EXCEPT
       !.penub = IF RLt(Zero, t.penub) THEN RMul(Two, t.penub)
                 ELSE IF Len(m.bub) + Len(m.cub) > 0 THEN One ELSE t.penub,
       !.peneq = IF RLt(Zero, t.peneq) THEN RMul(Two, t.peneq)
                 ELSE IF Len(m.beq) + Len(m.ceq) > 0 THEN One ELSE t.peneq]

(* TrustRegion.update_penalty_coefficients: the while loop, entered with   *)
(* kopt = ksav.  The loop whose pass changes neither kopt nor a            *)
(* coefficient repeats that pass for ever and is reported as hang.  fuel   *)
(* bounds the doublings the model follows; the loop that has not ended     *)
(* when the fuel is spent is reported as spent.  In a pass t1 holds the    *)
(* doubled coefficients, mmx is the merit of the models at xnew, and m1 is *)
(* m with the best point for t1 as kopt.                                   *)
RECURSIVE PenaltyLoop(_, _, _, _, _, _, _)
PenaltyTest(t, t1, m, m1, xnew, fx, cubx, ceqx, fuel, mmx, mopt) ==
    IF m1.kopt # m.kopt \/ ~RLt(mopt, mmx)
    THEN [hang |-> FALSE, spent |-> FALSE, t |-> t1, m |-> m1,
          mx |-> Merit(t1, m, xnew, fx, cubx, ceqx), mmx |-> mmx, mopt |-> mopt]
    ELSE IF t1.penub = t.penub /\ t1.peneq = t.peneq
         THEN [hang |-> TRUE, spent |-> FALSE, t |-> t1, m |-> m1,
               mx |-> Merit(t1, m, xnew, fx, cubx, ceqx), mmx |-> mmx, mopt |-> mopt]
         ELSE IF fuel = 0
         THEN [hang |-> FALSE, spent |-> TRUE, t |-> t1, m |-> m1,
               mx |-> Merit(t1, m, xnew, fx, cubx, ceqx), mmx |-> mmx, mopt |-> mopt]
         ELSE PenaltyLoop(t1, m1, xnew, fx, cubx, ceqx, fuel - 1)

PenaltyBest(t, t1, m, m1, xnew, fx, cubx, ceqx, fuel) ==
    PenaltyTest(t, t1, m, m1, xnew, fx, cubx, ceqx, fuel,
                MeritModel(t1, m, xnew), MeritK(t1, m1, m1.kopt))

PenaltyPass(t, t1, m, xnew, fx, cubx, ceqx, fuel) ==
    PenaltyBest(t, t1, m, SetKopt(m, GetBestPoint(t1, m)), xnew, fx, cubx, ceqx, fuel)

PenaltyLoop(t, m, xnew, fx, cubx, ceqx, fuel) ==
    PenaltyPass(t, DoublePenalties(t, m), m, xnew, fx, cubx, ceqx, fuel)

(* update_penalty_coefficients that doubles on a geometry step as well.    *)
UpdatePenaltyFromAnyStep(t, m, xnew, fx, cubx, ceqx, fuel, mmx, mopt) ==
    IF RLt(mopt, mmx)
    THEN PenaltyLoop(t, m, xnew, fx, cubx, ceqx, fuel)
    ELSE [hang |-> FALSE, spent |-> FALSE, t |-> t, m |-> m,
          mx |-> Merit(t, m, xnew, fx, cubx, ceqx), mmx |-> mmx, mopt |-> mopt]

(* TrustRegion.update_penalty_coefficients: mmx and mopt are the merit of  *)
(* the models at xnew and the merit of the best point.  The result holds   *)
(* the objects as the call leaves them and the triple it returns.          *)
UpdatePenaltyFrom(t, m, xnew, fx, cubx, ceqx, fuel, mmx, mopt) ==
    IF t.knew = 0 /\ RLt(mopt, mmx)
    THEN PenaltyLoop(t, m, xnew, fx, cubx, ceqx, fuel)
    ELSE [hang |-> FALSE, spent |-> FALSE, t |-> t, m |-> m,
          mx |-> Merit(t, m, xnew, fx, cubx, ceqx), mmx |-> mmx, mopt |-> mopt]

UpdatePenaltyCoefficients(t, m, xnew, fx, cubx, ceqx, fuel) ==
    UpdatePenaltyFrom(t, m, xnew, fx, cubx, ceqx, fuel,
                      MeritModel(t, m, xnew), MeritK(t, m, m.kopt))

(* TrustRegion.update, after the models are updated (mu): the best point.  *)
TrUpdateBest(pc, mu, ratio, rx) ==
    IF ~mu.ok
    THEN [outcome |-> "breakdown", t |-> pc.t, m |-> mu.m,
          ret |-> [mopt |-> Zero, ratio |-> Zero]]
    ELSE IF LessMerit(pc.t, pc.mx, rx, pc.mopt, mu.m.rval[mu.m.kopt])
    THEN [outcome |-> "ok", t |-> [pc.t EXCEPT !.knew = mu.knew],
          m |-> SetKopt(mu.m, mu.knew),
          ret |-> [mopt |-> pc.mx, ratio |-> ratio]]
    ELSE [outcome |-> "ok", t |-> [pc.t EXCEPT !.knew = mu.knew], m |-> mu.m,
          ret |-> [mopt |-> pc.mopt, ratio |-> ratio]]

(* update that goes on to the models when the doubling has moved kopt.     *)
TrUpdateModelsNoRestart(t, m, step, xnew, fx, cubx, ceqx, pc) ==
    IF pc.hang \/ pc.spent
    THEN [outcome |-> IF pc.hang THEN "hang" ELSE "spent", t |-> pc.t, m |-> pc.m,
          ret |-> [mopt |-> Zero, ratio |-> Zero]]
    ELSE TrUpdateBest(pc, ModelsUpdate(pc.m, step, fx, cubx, ceqx, t.knew),
                      IF t.knew = 0 /\ AboveTiny(RAbs(RSub(pc.mopt, pc.mmx)))
                      THEN RDiv(RSub(pc.mopt, pc.mx), RSub(pc.mopt, pc.mmx))
                      ELSE R(-1),
                      Resid(pc.m, xnew, cubx, ceqx))

(* TrustRegion.update, after the penalty coefficients are updated (pc).    *)
TrUpdateModels(t, m, step, xnew, fx, cubx, ceqx, pc) ==
    IF pc.hang \/ pc.spent
    THEN [outcome |-> IF pc.hang THEN "hang" ELSE "spent", t |-> pc.t, m |-> pc.m,
          ret |-> [mopt |-> Zero, ratio |-> Zero]]
    ELSE IF pc.m.kopt # m.kopt
    THEN [outcome |-> "restart", t |-> [pc.t EXCEPT !.knew = 0], m |-> pc.m,
          ret |-> [mopt |-> Zero, ratio |-> Zero]]
    ELSE TrUpdateBest(pc, ModelsUpdate(pc.m, step, fx, cubx, ceqx, t.knew),
                      IF t.knew = 0 /\ AboveTiny(RAbs(RSub(pc.mopt, pc.mmx)))
                      THEN RDiv(RSub(pc.mopt, pc.mx), RSub(pc.mopt, pc.mmx))
                      ELSE R(-1),
                      Resid(pc.m, xnew, cubx, ceqx))

(* TrustRegion.update, after the functions are evaluated at xnew and the   *)
(* multipliers updated (t1).                                               *)
TrUpdateEval(t, t1, m, step, fuel, xnew, fx, cubx, ceqx) ==
    TrUpdateModels(t1, m, step, xnew, fx, cubx, ceqx,
                   UpdatePenaltyCoefficients(t1, m, xnew, fx, cubx, ceqx, fuel))

TrUpdateAt(t, m, step, lm, fuel, xnew) ==
    TrUpdateEval(t, UpdateMultipliers(t, m, lm), m, step, fuel, xnew,
                 Fun(t.fun, VAdd(t.xbase, xnew)),
                 EvalCon(t.cubf, VAdd(t.xbase, xnew)),
                 EvalCon(t.ceqf, VAdd(t.xbase, xnew)))

(* TrustRegion.update.  lm is what nnls returns to update_multipliers.     *)
(* The result holds the outcome ("ok": the call returns; "restart":        *)
(* RestartRequiredException; "breakdown": ZeroDivisionError; "hang": the   *)
(* call does not return; "spent": the model has stopped following the      *)
(* call), the objects as the call leaves them, and the returned pair.      *)
TrUpdate(t, m, step, lm, fuel) ==
    TrUpdateAt(t, m, step, lm, fuel, VAdd(m.xpt[m.kopt], step))

(* The test of shift_origin with the radius in place of its square.        *)
ShiftNeededRadius(m, delta) ==
    RLe(RMul(R(10), delta), Dot(m.xpt[m.kopt], m.xpt[m.kopt]))

(* TrustRegion.shift_origin: whether the shift is performed.               *)
ShiftNeeded(m, delta) ==
    RLe(RMul(R(10), RSq(delta)), Dot(m.xpt[m.kopt], m.xpt[m.kopt]))

(* trust_region_step, the square of the radius given to cpqp:              *)
(* nsf * (delta * sqrt(.5)) with nsf = .8.                                 *)
NormalRadiusSq(delta) == RMul(RSq(<<4, 5>>), RMul(Half, RSq(delta)))

(* The residual radius whatever the normal step.                           *)
TangentialRadiusSqResidual(delta, ssq) == RSub(RMul(Half, RSq(delta)), ssq)

(* trust_region_step, the square of the radius given to bvtcg or lctcg;    *)
(* ssq is the squared length of the normal step.  A negligible normal step *)
(* gives (delta * sqrt(.5)) * sqrt(2.), the radius delta itself.           *)
TangentialRadiusSq(delta, ssq) ==
    IF BelowTol(ssq) THEN RSq(delta) ELSE RSub(RMul(Half, RSq(delta)), ssq)

(* TrustRegion.trust_region_step, which reads the state and adds the       *)
(* normal step to the best point in place, xopt being a view of xpt.       *)
TrTrustRegionStepInPlace(t, m, delta, nstep, tstep) ==
    LET mc == Len(m.bub) + Len(m.cub) + Len(m.beq) + Len(m.ceq)
        ns == IF mc = 0 THEN ZeroVec(Len(m.xl)) ELSE nstep
    IN [t |-> t, m |-> [m EXCEPT !.xpt[m.kopt] = VAdd(@, ns)],
        nstep |-> ns, nradsq |-> NormalRadiusSq(delta),
        tradsq |-> TangentialRadiusSq(delta, Dot(ns, ns)),
        step |-> VAdd(ns, tstep)]

(* TrustRegion.trust_region_step(delta).  nstep is what cpqp returns (the  *)
(* normal step, which is zero without constraints) and tstep what bvtcg or *)
(* lctcg returns (the tangential step).  The method works on copies and on *)
(* new arrays; the result holds the objects as the call leaves them, the   *)
(* normal step, the squares of the radii of the two subproblems, and the   *)
(* step the call returns.                                                  *)
TrTrustRegionStep(t, m, delta, nstep, tstep) ==
    LET mc == Len(m.bub) + Len(m.cub) + Len(m.beq) + Len(m.ceq)
        ns == IF mc = 0 THEN ZeroVec(Len(m.xl)) ELSE nstep
    IN [t |-> t, m |-> m,
        nstep |-> ns, nradsq |-> NormalRadiusSq(delta),
        tradsq |-> TangentialRadiusSq(delta, Dot(ns, ns)),
        step |-> VAdd(ns, tstep)]

(* The test that compares the absolute value of the denominator with the   *)
(* value of the Cauchy step.                                               *)
CauchyPreferredAbs(tol, sigma, cauchy) ==
    /\ RLt(RAbs(sigma), cauchy)
    /\ RLt(RMul(tol, RMax(One, RAbs(sigma))), cauchy)

(* Models.improve_geometry, the test of its last lines: whether the step   *)
(* of bvcs replaces the step of bvlag.  sigma is the denominator of the    *)
(* updating formula for the step of bvlag and cauchy the value bvcs        *)
(* returns with its step.                                                  *)
CauchyPreferred(tol, sigma, cauchy) ==
    /\ RLt(sigma, cauchy)
    /\ RLt(RMul(tol, RMax(One, RAbs(sigma))), cauchy)

(* Models.improve_geometry.  step is what bvlag returns, salt and cauchy   *)
(* what bvcs returns; the Lagrange polynomial is a new Quadratic object.   *)
(* The tolerance is taken as zero, as everywhere in the exact arithmetic   *)
(* of the interpolation set.                                               *)
ModelsImproveGeometry(m, klag, step, salt, cauchy) ==
    LET alpha == OmegaCol(m.zmat, m.idz, klag, Len(m.xpt))[klag]
        bv == Beta(m, step)
        sigma == RAdd(RSq(bv.vlag[klag]), RMul(alpha, bv.beta))
    IN [m |-> m,
        step |-> IF CauchyPreferred(Zero, sigma, cauchy) THEN salt ELSE step]

(* TrustRegion.model_step *)
TrModelStep(t, m, step, salt, cauchy) ==
    [t |-> t] @@ ModelsImproveGeometry(m, t.knew, step, salt, cauchy)
(* TrustRegion.shift_origin *)
TrShiftOrigin(t, m, delta) ==
    IF ShiftNeeded(m, delta)
    THEN [t |-> [t EXCEPT !.xbase = VAdd(t.xbase, m.xpt[m.kopt])],
          m |-> ModelsShiftOrigin(m)]
    ELSE [t |-> t, m |-> m]

(* TrustRegion.prepare_trust_region_step *)
PrepareTrustRegionStep(t) == [t EXCEPT !.knew = 0]

(* prepare_model_step that takes a point at the distance delta for a far   *)
(* one.                                                                    *)
PrepareModelStepAtLeast(t, m, delta) ==
    LET dsq == DistSq(m)
        far == Tup([k \in 1..Len(dsq) |-> IF RLt(dsq[k], RSq(delta)) THEN R(-1) ELSE dsq[k]])
    IN IF \E k \in 1..Len(dsq) : RLe(RSq(delta), dsq[k])
       THEN [t EXCEPT !.knew = ArgMax(far)]
       ELSE [t EXCEPT !.knew = 0]
(* TrustRegion.prepare_model_step *)
PrepareModelStep(t, m, delta) ==
    LET dsq == DistSq(m)
        far == Tup([k \in 1..Len(dsq) |-> IF RLe(dsq[k], RSq(delta)) THEN R(-1) ELSE dsq[k]])
    IN IF \E k \in 1..Len(dsq) : RLt(RSq(delta), dsq[k])
       THEN [t EXCEPT !.knew = ArgMax(far)]
       ELSE [t EXCEPT !.knew = 0]

(* TrustRegion.reduce_penalty_coefficients *)
ReducePenaltyCoefficients(t, m) ==
    LET npt == Len(m.xpt)
        fmin == VMin(m.fval, m.fval[1])
        fmax == VMax(m.fval, m.fval[1])
        rub == Tup([k \in 1..npt |-> VSub(MatVec(m.aub, m.xpt[k]), m.bub) \o m.cvalub[k]])
        umin == Tup([k \in 1..npt |-> VMin(rub[k], Zero)])
        umax == Tup([k \in 1..npt |-> VMax(rub[k], Zero)])
        iub == {k \in 1..npt : RLt(umin[k], RMul(Two, umax[k]))}
        req == Tup([k \in 1..npt |-> VSub(MatVec(m.aeq, m.xpt[k]), m.beq) \o m.cvaleq[k]])
        emin == Tup([k \in 1..npt |-> VMin(req[k], Zero)])
        emax == Tup([k \in 1..npt |-> VMax(req[k], Zero)])
        ieq == {k \in 1..npt : RLt(emin[k], RMul(Two, emax[k]))
                               \/ RLt(emin[k], RMul(Half, emax[k]))}
        MinOver(S, f(_)) == CHOOSE x \in {f(k) : k \in S} :
                               \A y \in {f(k) : k \in S} : RLe(x, y)
        du(k) == RSub(umax[k], RMin(Zero, umin[k]))
        de(k) == RSub(RMax(Zero, emax[k]), RMin(Zero, emin[k]))
    IN [t EXCEPT
          !.penub = IF RLt(Zero, t.penub)
                    THEN (IF iub # {} THEN RDiv(RSub(fmax, fmin), MinOver(iub, du))
                          ELSE Zero)
                    ELSE t.penub,
          !.peneq = IF RLt(Zero, t.peneq)
                    THEN (IF ieq # {} THEN RDiv(RSub(fmax, fmin), MinOver(ieq, de))
                          ELSE Zero)
                    ELSE t.peneq]

(* xu - xl, which is +inf where both bounds are infinite.                  *)
Span(xl, xu) ==
    Tup([i \in 1..Len(xl) |->
        IF xl[i][2] = 0 /\ xu[i][2] = 0 THEN <<1, 0>> ELSE RSub(xu[i], xl[i])])

(* TrustRegion.__init__: rhobeg and rhoend after the clamping.             *)
ClampRhobeg(xl, xu, rhobeg) ==
    RMin(RMul(Half, VMin(Span(xl, xu), Span(xl, xu)[1])), rhobeg)

(* A clamping that leaves rhoend as the options have it.                   *)
ClampRhoendKeep(rhobegClamped, rhoend) == rhoend

ClampRhoend(rhobegClamped, rhoend) == RMin(rhobegClamped, rhoend)

(* An initial guess that is projected onto the bounds and no more.         *)
AdjustX0ProjectOnly(x0, xl, xu, rhobeg) ==
    Tup([i \in 1..Len(x0) |-> RMin(xu[i], RMax(xl[i], x0[i]))])

(* TrustRegion.__init__: the initial guess after the projection onto the   *)
(* bounds and the adjustment that keeps it rhobeg away from them.          *)
AdjustX0(x0, xl, xu, rhobeg) ==
    Tup([i \in 1..Len(x0) |->
        LET p == RMin(xu[i], RMax(xl[i], x0[i]))
            a == IF RLe(RSub(p, xl[i]), rhobeg) /\ RLt(xl[i], p)
                 THEN RAdd(xl[i], rhobeg) ELSE p
        IN IF RLe(RSub(xu[i], a), rhobeg) /\ RLt(a, xu[i])
           THEN RSub(xu[i], rhobeg) ELSE a])

(* TrustRegion.__init__ for the problem p: the Models object it builds,    *)
(* with kopt still the first point.                                        *)
TrInitModels(p) ==
    LET rhobeg == ClampRhobeg(p.xl, p.xu, p.rhobeg)
        x0 == AdjustX0(p.x0, p.xl, p.xu, rhobeg)
    IN ModelsInit(p.fun, p.cubf, p.ceqf, x0, p.xl, p.xu,
                  p.Aub, p.bub, p.Aeq, p.beq, p.npt, rhobeg)

(* The end of __init__ with get_best_point in place of the argmin.         *)
TrInitBestByGetBestPoint(t1, m0) ==
    [t |-> t1, m |-> SetKopt(m0, GetBestPoint(t1, m0))]
(* TrustRegion.__init__, the end: kopt is the point of least merit.        *)
TrInitBest(t1, m0) ==
    [t |-> t1,
     m |-> SetKopt(m0, ArgMin(Tup([k \in 1..Len(m0.xpt) |-> MeritK(t1, m0, k)])))]

(* TrustRegion.__init__, after the options are set and the models built.   *)
TrInitWith(p, lm, rhobeg, x0, m0) ==
    TrInitBest(
        UpdateMultipliers(
            [fun |-> p.fun, cubf |-> p.cubf, ceqf |-> p.ceqf,
             xbase |-> x0, penub |-> Zero, peneq |-> Zero,
             lmlub |-> ZeroVec(Len(p.bub)), lmleq |-> ZeroVec(Len(p.beq)),
             lmnlub |-> ZeroVec(Len(p.cubf)), lmnleq |-> ZeroVec(Len(p.ceqf)),
             knew |-> 0,
             options |-> [rhobeg |-> rhobeg, rhoend |-> ClampRhoend(rhobeg, p.rhoend),
                          npt |-> p.npt]],
            m0, lm),
        m0)

(* TrustRegion.__init__ for the problem p; lm is what nnls returns to the  *)
(* first update_multipliers.  The result is the pair of objects.           *)
TrInit(p, lm) ==
    TrInitWith(p, lm, ClampRhobeg(p.xl, p.xu, p.rhobeg),
               AdjustX0(p.x0, p.xl, p.xu, ClampRhobeg(p.xl, p.xu, p.rhobeg)),
               TrInitModels(p))

-----------------------------------------------------------------------------
(* The driver: the problems it constructs the solver for, and the calls it *)
(* makes.  The driver is not part of models.py; its protocol is the one of *)
(* the specification's control flow: it requests a step kind (one of the   *)
(* prepare_* operations) before it feeds a trial point back with update.   *)
(* requested holds between the request and the update that returns; the    *)
(* constructor and a restart leave a trust-region step requested, and a    *)
(* breakdown leaves the request standing for the retry.                    *)

MaxCalls == 3
MaxDoublings == 4

V(s) == Tup([i \in 1..Len(s) |-> R(s[i])])

(* The problems: n = 1 with the bounds [-2, 2] and npt = 3.                *)
Problem(x, f, aub, bub, aeq, beq, cubf, ceqf) ==
    [n |-> 1, npt |-> 3, x0 |-> V(<<x>>), xl |-> V(<<-2>>), xu |-> V(<<2>>),
     Aub |-> aub, bub |-> bub, Aeq |-> aeq, beq |-> beq,
     fun |-> f, cubf |-> cubf, ceqf |-> ceqf,
     rhobeg |-> One, rhoend |-> One]

Problems ==
    { Problem(0, "cube", <<>>, <<>>, <<>>, <<>>, <<>>, <<>>),
      Problem(0, "abs1", <<V(<<1>>)>>, V(<<1>>), <<>>, <<>>, <<>>, <<>>),
      Problem(2, "cube", <<V(<<1>>)>>, V(<<1>>), <<>>, <<>>, <<>>, <<"sum1">>),
      Problem(0, "cube", <<>>, <<>>, <<V(<<1>>)>>, V(<<0>>), <<"sqm1">>, <<>>),
      [Problem(0, "abs1", <<V(<<-1>>)>>, V(<<-1>>), <<>>, <<>>, <<>>, <<>>)
          EXCEPT !.x0 = <<Half>>],
      [n |-> 2, npt |-> 5, x0 |-> V(<<0, 0>>), xl |-> V(<<-2, -2>>), xu |-> V(<<2, 2>>),
       Aub |-> <<>>, bub |-> <<>>, Aeq |-> <<>>, beq |-> <<>>,
       fun |-> "cube", cubf |-> <<>>, ceqf |-> <<>>,
       rhobeg |-> One, rhoend |-> One] }

(* What nnls may return: the first NnlsNonneg components are nonnegative.  *)
LmValues == {R(-1), Zero, One}
LmChoices(m) ==
    {lm \in [1..NnlsLen(m) -> LmValues] :
        \A i \in 1..NnlsNonneg(m) : RLe(Zero, lm[i])}

(* The steps the subproblem solvers may return, and the radii.             *)
StepValues == {R(-1), Zero, One}
Steps(n) == [1..n -> StepValues]
Deltas == {Zero, Half, One}

InBounds(m, x) ==
    \A i \in 1..Len(x) : RLe(m.xl[i], x[i]) /\ RLe(x[i], m.xu[i])

Init ==
    \E p \in Problems :
      \E lm \in LmChoices(TrInitModels(p)) :
        \E c \in {TrInit(p, lm)} :
           /\ prob = p
           /\ tr = c.t
           /\ models = c.m
           /\ last = [op |-> "init", outcome |-> "ok",
                      ret |-> [mopt |-> Zero, ratio |-> Zero], arg |-> <<>>]
           /\ requested = TRUE
           /\ ncall = 0

Running == last.outcome \notin {"hang", "spent"} /\ ncall < MaxCalls

DoPrepareTrustRegionStep ==
    /\ Running
    /\ tr' = PrepareTrustRegionStep(tr)
    /\ last' = [op |-> "prepare_trust_region_step", outcome |-> "ok",
                ret |-> [mopt |-> Zero, ratio |-> Zero], arg |-> <<>>]
    /\ requested' = TRUE
    /\ ncall' = ncall + 1
    /\ UNCHANGED <<prob, models>>

DoPrepareModelStep ==
    /\ Running
    /\ \E delta \in Deltas :
         /\ tr' = PrepareModelStep(tr, models, delta)
         /\ last' = [op |-> "prepare_model_step", outcome |-> "ok",
                     ret |-> [mopt |-> Zero, ratio |-> Zero], arg |-> delta]
    /\ requested' = TRUE
    /\ ncall' = ncall + 1
    /\ UNCHANGED <<prob, models>>

DoUpdate ==
    /\ Running
    /\ requested
    /\ \E step \in Steps(Len(models.xl)) :
         /\ InBounds(models, VAdd(models.xpt[models.kopt], step))
         /\ \E lm \in LmChoices(models) :
              \E r \in {TrUpdate(tr, models, step, lm, MaxDoublings)} :
                 /\ tr' = r.t
                 /\ models' = r.m
                 /\ last' = [op |-> "update", outcome |-> r.outcome,
                             ret |-> r.ret,
                             arg |-> [step |-> step, lm |-> lm, knew |-> tr.knew]]
                 /\ requested' = (r.outcome # "ok")
    /\ ncall' = ncall + 1
    /\ UNCHANGED prob

DoShiftOrigin ==
    /\ Running
    /\ \E delta \in Deltas :
         \E r \in {TrShiftOrigin(tr, models, delta)} :
            /\ tr' = r.t
            /\ models' = r.m
            /\ last' = [op |-> "shift_origin",
                        outcome |-> IF ShiftNeeded(models, delta) THEN "shifted" ELSE "kept",
                        ret |-> [mopt |-> Zero, ratio |-> Zero], arg |-> delta]
    /\ ncall' = ncall + 1
    /\ UNCHANGED <<prob, requested>>

DoReducePenaltyCoefficients ==
    /\ Running
    /\ tr' = ReducePenaltyCoefficients(tr, models)
    /\ last' = [op |-> "reduce_penalty_coefficients", outcome |-> "ok",
                ret |-> [mopt |-> Zero, ratio |-> Zero], arg |-> <<>>]
    /\ ncall' = ncall + 1
    /\ UNCHANGED <<prob, models, requested>>

DoResetModels ==
    /\ Running
    /\ models' = ModelsResetModels(models)
    /\ last' = [op |-> "reset_models", outcome |-> "ok",
                ret |-> [mopt |-> Zero, ratio |-> Zero], arg |-> <<>>]
    /\ ncall' = ncall + 1
    /\ UNCHANGED <<prob, tr, requested>>

Next ==
    \/ DoPrepareTrustRegionStep
    \/ DoPrepareModelStep
    \/ DoUpdate
    \/ DoShiftOrigin
    \/ DoReducePenaltyCoefficients
    \/ DoResetModels

Spec == Init /\ [][Next]_vars

-----------------------------------------------------------------------------
(* The computation of the steps.  Between the request of a step kind and   *)
(* the update the driver computes the step with trust_region_step or       *)
(* model_step.  These calls are followed here together with the calls of   *)
(* Next, for MaxStepCalls calls from the construction on.                  *)

MaxStepCalls == 2

(* A step the subproblem solvers may return for the radius delta: the      *)
(* best point moved by it is within the bounds and the step within the     *)
(* trust region.  (In trust_region_step the normal step is within the      *)
(* bounds and the ball of cpqp, and the tangential step takes the point    *)
(* moved by the normal step to a point within the bounds and is within the *)
(* ball of bvtcg or lctcg.)                                                *)
StepFits(m, step, delta) ==
    /\ InBounds(m, VAdd(m.xpt[m.kopt], step))
    /\ RLe(Dot(step, step), RSq(delta))

DoTrustRegionStep ==
    /\ Running /\ ncall < MaxStepCalls
    /\ requested /\ tr.knew = 0
    /\ \E delta \in Deltas \cup {Two} : \E nstep, tstep \in Steps(Len(models.xl)) :
         \E r \in {TrTrustRegionStep(tr, models, delta, nstep, tstep)} :
            /\ InBounds(models, VAdd(models.xpt[models.kopt], nstep))
            /\ RLe(Dot(nstep, nstep), r.nradsq)
            /\ InBounds(models, VAdd(models.xpt[models.kopt], r.step))
            /\ RLe(Dot(tstep, tstep), r.tradsq)
            /\ tr' = r.t
            /\ models' = r.m
            /\ last' = [op |-> "trust_region_step", outcome |-> "ok",
                        ret |-> [mopt |-> Zero, ratio |-> Zero],
                        arg |-> [delta |-> delta, step |-> r.step, nstep |-> r.nstep,
                                 tstep |-> tstep, nradsq |-> r.nradsq,
                                 tradsq |-> r.tradsq]]
    /\ ncall' = ncall + 1
    /\ UNCHANGED <<prob, requested>>

DoModelStep ==
    /\ Running /\ ncall < MaxStepCalls
    /\ requested /\ tr.knew # 0
    /\ \E delta \in Deltas : \E step, salt \in Steps(Len(models.xl)) :
         \E cauchy \in {Zero, One} :
            \E r \in {TrModelStep(tr, models, step, salt, cauchy)} :
               /\ StepFits(models, step, delta) /\ StepFits(models, salt, delta)
               /\ tr' = r.t
               /\ models' = r.m
               /\ last' = [op |-> "model_step", outcome |-> "ok",
                           ret |-> [mopt |-> Zero, ratio |-> Zero],
                           arg |-> [delta |-> delta, step |-> r.step]]
    /\ ncall' = ncall + 1
    /\ UNCHANGED <<prob, requested>>
NextStep ==
    \/ DoTrustRegionStep
    \/ DoModelStep
    \/ (ncall < MaxStepCalls /\ Next)

SpecStep == Init /\ [][NextStep]_vars

-----------------------------------------------------------------------------
(* The calls in any order.  TrustRegion does not check that a step kind    *)
(* was requested before update is called: here the driver may call update  *)
(* again after an update that returned, with no prepare_* call in between. *)
(* The calls are followed for MaxFreeCalls calls from the construction on. *)

MaxFreeCalls == 2

DoUpdateAgain ==
    /\ Running
    /\ ~requested
    /\ \E step \in Steps(Len(models.xl)) :
         /\ InBounds(models, VAdd(models.xpt[models.kopt], step))
         /\ \E lm \in LmChoices(models) :
              \E r \in {TrUpdate(tr, models, step, lm, MaxDoublings)} :
                 /\ tr' = r.t
                 /\ models' = r.m
                 /\ last' = [op |-> "update", outcome |-> r.outcome,
                             ret |-> r.ret,
                             arg |-> [step |-> step, lm |-> lm, knew |-> tr.knew]]
                 /\ requested' = (r.outcome # "ok")
    /\ ncall' = ncall + 1
    /\ UNCHANGED prob

NextAnyOrder ==
    \/ (ncall < MaxFreeCalls /\ DoUpdateAgain)
    \/ (ncall < MaxFreeCalls /\ Next)

SpecAnyOrder == Init /\ [][NextAnyOrder]_vars

-----------------------------------------------------------------------------
(* The index idz on its own.  In exact arithmetic sigma and beta are never *)
(* negative and idz stays 0; with rounding either sign occurs.  Here the   *)
(* update is reduced to what it does to idz, for every shape (n, npt) the  *)
(* options allow and every sign of sigma (not zero past the breakdown      *)
(* test) and of beta.  models holds idz and the number nz of columns of    *)
(* zmat.                                                                   *)

MaxN == 2
MaxIdzCalls == 4

IdzShapes ==
    {s \in (1..MaxN) \X (3..(((MaxN + 1) * (MaxN + 2)) \div 2)) :
        s[1] + 2 <= s[2] /\ s[2] <= ((s[1] + 1) * (s[1] + 2)) \div 2}

InitIdz ==
    \E s \in IdzShapes :
       /\ prob = [n |-> s[1], npt |-> s[2]]
       /\ models = [idz |-> 0, nz |-> s[2] - s[1] - 1]
       /\ tr = [knew |-> 0]
       /\ last = [op |-> "init", outcome |-> "ok", arg |-> <<>>]
       /\ requested = TRUE
       /\ ncall = 0

IdzUpdate ==
    /\ ncall < MaxIdzCalls
    /\ \E sgnSigma \in {-1, 1}, sgnBeta \in {-1, 0, 1} :
         /\ models' = [models EXCEPT
                         !.idz = IdzAfterUpdate(models.idz, models.nz, sgnSigma, sgnBeta)]
         /\ last' = [op |-> "update", outcome |-> "ok",
                     arg |-> [sigma |-> sgnSigma, beta |-> sgnBeta]]
    /\ ncall' = ncall + 1
    /\ UNCHANGED <<prob, tr, requested>>

IdzShiftOrigin ==
    /\ ncall < MaxIdzCalls
    /\ last' = [op |-> "shift_origin", outcome |-> "shifted", arg |-> <<>>]
    /\ ncall' = ncall + 1
    /\ UNCHANGED <<prob, tr, models, requested>>

NextIdz ==
    \/ IdzUpdate
    \/ IdzShiftOrigin

SpecIdz == InitIdz /\ [][NextIdz]_vars

-----------------------------------------------------------------------------
(* The constructor's processing of the options and of the initial guess    *)
(* (TrustRegion.__init__, lines 49-76), on its own.  The options are the   *)
(* program's dict: a function on the names of the options that are set.    *)
(* An infinite bound (the default for xl and xu) is the pair <<-1, 0>> or  *)
(* <<1, 0>>, which the comparisons order as -inf and +inf.  prob holds the *)
(* arguments of the call, tr the options and the initial guess as the      *)
(* constructor has them so far, and last.op the part of the constructor    *)
(* that has run.                                                           *)

Max(a, b) == IF a < b THEN b ELSE a
Min(a, b) == IF b < a THEN b ELSE a

(* dict.setdefault *)
SetDefault(o, key, val) == IF key \in DOMAIN o THEN o ELSE o @@ (key :> val)

RhoendDefault == <<1, 1000000>>

(* TrustRegion.set_default_options: the options the properties are about   *)
(* (target, disp and debug are not modelled).                              *)
SetDefaultOptions(o, n) ==
    LET rhoend == IF "rhoend" \in DOMAIN o THEN o["rhoend"] ELSE RhoendDefault
        o1 == SetDefault(o, "rhobeg", RMax(One, rhoend))
        o2 == SetDefault(o1, "rhoend", RMin(rhoend, o1["rhobeg"]))
        o3 == SetDefault(o2, "npt", 2 * n + 1)
    IN SetDefault(o3, "maxfev", Max(500 * n, o3["npt"] + 1))

(* An option check that keeps the npt it is given.                         *)
CheckOptionsKeepNpt(o, n) ==
    LET o2 == IF o["maxfev"] <= o["npt"]
              THEN [o EXCEPT !["maxfev"] = o["npt"] + 1] ELSE o
    IN IF RLt(o2["rhobeg"], o2["rhoend"])
       THEN [o2 EXCEPT !["rhoend"] = o2["rhobeg"]] ELSE o2

(* TrustRegion.check_options *)
CheckOptions(o, n) ==
    LET nptMin == n + 2
        nptMax == ((n + 1) * (n + 2)) \div 2
        o1 == IF nptMin <= o["npt"] /\ o["npt"] <= nptMax
              THEN o ELSE [o EXCEPT !["npt"] = Min(nptMax, Max(nptMin, o["npt"]))]
        o2 == IF o1["maxfev"] <= o1["npt"]
              THEN [o1 EXCEPT !["maxfev"] = o1["npt"] + 1] ELSE o1
    IN IF RLt(o2["rhobeg"], o2["rhoend"])
       THEN [o2 EXCEPT !["rhoend"] = o2["rhobeg"]] ELSE o2

MaxOptN == 3
MaxGuessN == 2

(* The calls that give npt and maxfev or omit them, for n variables, no    *)
(* bounds and the other options omitted.  The values of npt go from below  *)
(* the interval to above it and to above 500 n.                            *)
OptionCalls ==
    LET NptGiven(n) == 0..(((n + 1) * (n + 2)) \div 2 + 1) \cup {500 * n + 100}
        MaxfevGiven(n) == {1, n + 2, n + 3, 2 * n + 2,
                           ((n + 1) * (n + 2)) \div 2 + 1, 500 * n + 1}
    IN UNION {
         { [n |-> n, x0 |-> ZeroVec(n),
            xl |-> Tup([i \in 1..n |-> <<-1, 0>>]), xu |-> Tup([i \in 1..n |-> <<1, 0>>]),
            options |-> o] :
             o \in UNION { {<<>>},
                           {("npt" :> v) : v \in NptGiven(n)},
                           {("maxfev" :> w) : w \in MaxfevGiven(n)},
                           {("npt" :> v) @@ ("maxfev" :> w) :
                                v \in NptGiven(n), w \in MaxfevGiven(n)} } } :
         n \in 1..MaxOptN }

(* The calls for n variables that give bounds with xl <= xu, an initial    *)
(* guess, and rhobeg and rhoend or omit them; npt and maxfev are omitted.   *)
GuessCalls(n) ==
    LET BoundPairs == {<<(<<-1, 0>>), (<<1, 0>>)>>, <<(<<-1, 0>>), R(3)>>,
                       <<R(0), (<<1, 0>>)>>, <<R(0), R(3)>>, <<R(0), R(0)>>}
        GuessValues == {R(-1), Half, <<5, 2>>, R(3)}
        RhoCalls ==
            UNION { {<<>>},
                    {("rhobeg" :> b) : b \in {Half, Two}},
                    {("rhoend" :> e) : e \in {<<1, 4>>, One, R(3)}},
                    {("rhobeg" :> b) @@ ("rhoend" :> e) :
                         b \in {Half, Two}, e \in {<<1, 4>>, One, R(3)}} }
    IN { [n |-> n, x0 |-> Tup(x),
          xl |-> Tup([i \in 1..n |-> b[i][1]]), xu |-> Tup([i \in 1..n |-> b[i][2]]),
          options |-> o] :
           x \in [1..n -> GuessValues], b \in [1..n -> BoundPairs], o \in RhoCalls }

InitOptions ==
    \E n \in 0..MaxGuessN :
      \E c \in IF n = 0 THEN OptionCalls ELSE GuessCalls(n) :
       /\ prob = c
       /\ tr = [options |-> c.options, x0 |-> c.x0]
       /\ models = <<>>
       /\ last = [op |-> "args", outcome |-> "ok", arg |-> <<>>]
       /\ requested = TRUE
       /\ ncall = 0

OptSetDefaultOptions ==
    /\ last.op = "args"
    /\ tr' = [tr EXCEPT !.options = SetDefaultOptions(tr.options, prob.n)]
    /\ last' = [last EXCEPT !.op = "set_default_options"]
    /\ ncall' = ncall + 1
    /\ UNCHANGED <<prob, models, requested>>

OptCheckOptions ==
    /\ last.op = "set_default_options"
    /\ tr' = [tr EXCEPT !.options = CheckOptions(tr.options, prob.n)]
    /\ last' = [last EXCEPT !.op = "check_options"]
    /\ ncall' = ncall + 1
    /\ UNCHANGED <<prob, models, requested>>

(* Lines 53-76: the radii are clamped and the initial guess is adjusted.   *)
OptAdjustGuess ==
    /\ last.op = "check_options"
    /\ \E rhobeg \in {ClampRhobeg(prob.xl, prob.xu, tr.options["rhobeg"])} :
         tr' = [options |-> [tr.options EXCEPT
                               !["rhobeg"] = rhobeg,
                               !["rhoend"] = ClampRhoend(rhobeg, tr.options["rhoend"])],
                x0 |-> AdjustX0(tr.x0, prob.xl, prob.xu, rhobeg)]
    /\ last' = [last EXCEPT !.op = "adjust"]
    /\ ncall' = ncall + 1
    /\ UNCHANGED <<prob, models, requested>>

NextOptions ==
    \/ OptSetDefaultOptions
    \/ OptCheckOptions
    \/ OptAdjustGuess

SpecOptions == InitOptions /\ [][NextOptions]_vars

-----------------------------------------------------------------------------
(* Functions of the program on their own: a call of one of them on         *)
(* arguments drawn from small sets.  last holds the function, its          *)
(* arguments and what it returns; the other variables are not used.        *)

(* TrustRegion.less_merit with the machine epsilon kept as the positive    *)
(* number eps: the two merit values may then differ by less than the       *)
(* tolerance without being equal.  (LessMerit above is this function for   *)
(* merit values that are equal or further apart than the tolerance.)       *)
LessMeritEps(eps, npt, penub, peneq, mval1, rval1, mval2, rval2) ==
    LET tol == RMul(RMul(R(10), eps), RMul(R(npt), RMax(One, RAbs(mval2))))
    IN IF RLt(mval1, mval2) THEN TRUE
       ELSE IF RLt(RMax(penub, peneq), tol)
            THEN RLe(RAbs(RSub(mval1, mval2)), tol) /\ RLt(rval1, rval2)
            ELSE FALSE

InitCalls ==
    /\ prob = <<>>
    /\ tr = <<>>
    /\ models = <<>>
    /\ last = [op |-> "none", arg |-> <<>>, ret |-> <<>>]
    /\ requested = FALSE
    /\ ncall = 0

(* less_merit on two points A and B, each way round, for one penalty       *)
(* state.  The merit values are apart by nothing, by less than the         *)
(* tolerance (10 eps npt = 3/10 here) and by more.                         *)
CallLessMerit ==
    /\ last.op = "none"
    /\ \E penub \in {Zero, One}, peneq \in {Zero, One},
          mA \in {R(-1), Zero, <<1, 10>>, One, <<11, 10>>},
          mB \in {R(-1), Zero, <<1, 10>>, One, <<11, 10>>},
          rA \in {Zero, Half, One}, rB \in {Zero, Half, One} :
         last' = [op |-> "less_merit",
                  arg |-> [penub |-> penub, peneq |-> peneq,
                           mA |-> mA, rA |-> rA, mB |-> mB, rB |-> rB],
                  ret |-> [AA |-> LessMeritEps(<<1, 100>>, 3, penub, peneq, mA, rA, mA, rA),
                           AB |-> LessMeritEps(<<1, 100>>, 3, penub, peneq, mA, rA, mB, rB),
                           BA |-> LessMeritEps(<<1, 100>>, 3, penub, peneq, mB, rB, mA, rA)]]
    /\ ncall' = ncall + 1
    /\ UNCHANGED <<prob, tr, models, requested>>

MaxPairN == 4

(* The shifted bounds of one coordinate: x0 is away from both bounds by at *)
(* least rhobeg = 1, on the lower bound, or on the upper bound.            *)
BoundChoices == {<<R(-2), R(2)>>, <<Zero, R(2)>>, <<R(-2), Zero>>}

(* The initial interpolation points of Models.__init__ for n variables,    *)
(* every npt that check_options lets through, and rhobeg = 1.              *)
CallInitXpt ==
    /\ last.op = "none"
    /\ \E n \in 1..MaxPairN :
         \E npt \in (n + 2)..(((n + 1) * (n + 2)) \div 2), b \in [1..n -> BoundChoices] :
            \E xl \in {Tup([i \in 1..n |-> b[i][1]])}, xu \in {Tup([i \in 1..n |-> b[i][2]])} :
               last' = [op |-> "init_xpt",
                        arg |-> [n |-> n, npt |-> npt, xl |-> xl, xu |-> xu,
                                 rhobeg |-> One],
                        ret |-> InitXpt(n, npt, xl, xu, One)]
    /\ ncall' = ncall + 1
    /\ UNCHANGED <<prob, tr, models, requested>>

(* The choice improve_geometry makes between its two steps, for npt = 3    *)
(* and eps = 1/100 (tol = 10 eps npt = 3/10).  In exact arithmetic the     *)
(* denominator sigma = vlag[klag]^2 + alpha beta is never negative; with   *)
(* rounding alpha (once idz has left 0) and beta take either sign, and so  *)
(* does sigma.  The value bvcs returns is a square.                        *)
CallImproveGeometry ==
    /\ last.op = "none"
    /\ \E sigma \in {R(-2), <<-1, 2>>, Zero, <<1, 10>>, Half, R(2)},
          cauchy \in {Zero, <<1, 5>>, One, R(3)} :
         last' = [op |-> "improve_geometry",
                  arg |-> [sigma |-> sigma, cauchy |-> cauchy,
                           tol |-> <<3, 10>>],
                  ret |-> IF CauchyPreferred(<<3, 10>>, sigma, cauchy)
                          THEN "salt" ELSE "step"]
    /\ ncall' = ncall + 1
    /\ UNCHANGED <<prob, tr, models, requested>>

NextCalls ==
    \/ CallLessMerit
    \/ CallInitXpt
    \/ CallImproveGeometry

SpecCalls == InitCalls /\ [][NextCalls]_vars

-----------------------------------------------------------------------------
(* Properties.                                                             *)

Npt == Len(models.xpt)

(* The step is a call of update, of shift_origin.                          *)
UpdateCalled == ncall' = ncall + 1 /\ last'.op = "update"
UpdateReturned == UpdateCalled /\ last'.outcome = "ok"
ShiftOriginCalled == ncall' = ncall + 1 /\ last'.op = "shift_origin"

(* The trial point of the call of update, and the values update evaluates  *)
(* there.                                                                  *)
TrialPoint == VAdd(models.xpt[models.kopt], last'.arg.step)
TrialFun == Fun(tr.fun, VAdd(tr.xbase, TrialPoint))
TrialCub == EvalCon(tr.cubf, VAdd(tr.xbase, TrialPoint))
TrialCeq == EvalCon(tr.ceqf, VAdd(tr.xbase, TrialPoint))

(* The interpolation data and the factorization are those of before.      *)
PointsUnchanged ==
    /\ models'.xpt = models.xpt
    /\ models'.fval = models.fval
    /\ models'.cvalub = models.cvalub
    /\ models'.cvaleq = models.cvaleq
    /\ models'.rval = models.rval
    /\ models'.bmat = models.bmat
    /\ models'.zmat = models.zmat
    /\ models'.idz = models.idz

(* C1: a call of update that fails with the breakdown of the swap update   *)
(* (sigma below the threshold) leaves all the state of the solver as it    *)
(* was before the call: the factorization, the points and their values,    *)
(* the models, kopt, knew, the penalty coefficients and the multipliers.   *)
BreakdownLeavesStateUnchanged ==
    [][(UpdateCalled /\ last'.outcome = "breakdown")
         => (tr' = tr /\ models' = models)]_vars

(* C2: after every update that returns, rval[k] is the residual recomputed *)
(* from xpt[k], cvalub[k], cvaleq[k], the shifted bounds and the linear    *)
(* constraints, for every k, the replaced index included.                  *)
RvalIsRecomputedResidual ==
    (last.op = "update" /\ last.outcome = "ok")
        => \A k \in 1..Npt :
              models.rval[k] = Resid(models, models.xpt[k], models.cvalub[k],
                                     models.cvaleq[k])

(* C3: in every reachable state every interpolation point is within the    *)
(* shifted bounds, xl <= xpt[k] <= xu, given that the trial points are.    *)
PointsWithinBounds ==
    \A k \in 1..Npt : \A i \in 1..Len(models.xl) :
        /\ RLe(models.xl[i], models.xpt[k][i])
        /\ RLe(models.xpt[k][i], models.xu[i])

(* An origin shift after an update has returned left a point on a bound.   *)
PointsWithinBoundsWitness ==
    /\ ~requested
    /\ last.op = "shift_origin" /\ last.outcome = "shifted"
    /\ tr.xbase # prob.x0
    /\ \E k \in 1..Npt : \E i \in 1..Len(models.xl) :
          models.xpt[k][i] = models.xl[i] \/ models.xpt[k][i] = models.xu[i]

(* C4: in every reachable state (after construction, after every update,   *)
(* change of kopt and origin shift) the objective model interpolates the   *)
(* stored values, q(xpt[k]) + vals[kopt] = vals[k] for every k, and so     *)
(* does each constraint model with its column of cvalub or cvaleq.         *)
Interpolates(q, vals) ==
    \A k \in 1..Npt :
        RAdd(QCall(q, models.xpt[k], models.xpt, models.kopt), vals[models.kopt])
            = vals[k]

NewPointBeats ==
    LET mnew == Merit(tr', models, TrialPoint, TrialFun, TrialCub, TrialCeq)
        mold == MeritK(tr', models, models.kopt)
        rnew == Resid(models, TrialPoint, TrialCub, TrialCeq)
        rold == models.rval[models.kopt]
    IN \/ RLt(mnew, mold)
       \/ /\ IsZero(tr'.penub) /\ IsZero(tr'.peneq)
          /\ mnew = mold
          /\ RLt(rnew, rold)

DoublingMovesKopt ==
    UpdatePenaltyCoefficients(UpdateMultipliers(tr, models, last'.arg.lm), models,
        TrialPoint, TrialFun, TrialCub, TrialCeq, MaxDoublings).m.kopt # models.kopt

RestartIffKoptMoves ==
    [][(UpdateCalled /\ last'.outcome \notin {"hang", "spent"}) =>
         /\ DoublingMovesKopt <=> (last'.outcome = "restart")
         /\ (last'.outcome = "restart") =>
               /\ PointsUnchanged
               /\ tr'.knew = 0
               /\ models'.kopt # models.kopt]_vars

(* update raised the restart signal: the coefficients are raised and a     *)
(* trust-region step is pending.                                           *)
RestartIffKoptMovesWitness ==
    /\ last.op = "update" /\ last.outcome = "restart"
    /\ tr.knew = 0
    /\ RLt(Zero, RMax(tr.penub, tr.peneq))

(* C7: with a geometry step pending (knew is not None) update replaces     *)
(* exactly the point knew by xopt + step, returns the ratio -1, leaves the *)
(* penalty coefficients as they are and does not raise the restart signal. *)
GeometryStepBypasses ==
    [][(UpdateCalled /\ tr.knew # 0) =>
         /\ last'.outcome \in {"ok", "breakdown"}
         /\ tr'.penub = tr.penub /\ tr'.peneq = tr.peneq
         /\ (last'.outcome = "ok") =>
               /\ last'.ret.ratio = R(-1)
               /\ tr'.knew = tr.knew
               /\ \A k \in 1..Npt :
                     models'.xpt[k] = IF k = tr.knew THEN TrialPoint ELSE models.xpt[k]]_vars

(* update returned from a geometry step on a problem with constraints; the *)
(* new point has more merit than the best point.                           *)
GeometryStepBypassesWitness ==
    /\ last.op = "update" /\ last.outcome = "ok"
    /\ last.arg.knew # 0
    /\ tr.knew = last.arg.knew /\ tr.knew # models.kopt
    /\ Len(models.bub) + Len(models.beq) + Len(models.cub) + Len(models.ceq) > 0
    /\ RLt(last.ret.mopt, MeritK(tr, models, tr.knew))

(* C8: shift_origin(delta) changes nothing when |xopt|^2 < 10 delta^2 and  *)
(* performs the shift when |xopt|^2 >= 10 delta^2.                         *)
ShiftOriginThreshold ==
    [][ShiftOriginCalled =>
         LET xopt == models.xpt[models.kopt]
         IN IF RLt(Dot(xopt, xopt), RMul(R(10), RMul(last'.arg, last'.arg)))
            THEN tr' = tr /\ models' = models
            ELSE /\ tr'.xbase = VAdd(tr.xbase, xopt)
                 /\ \A k \in 1..Npt : models'.xpt[k] = VSub(models.xpt[k], xopt)
                 /\ models'.xl = VSub(models.xl, xopt)
                 /\ models'.xu = VSub(models.xu, xopt)]_vars

(* shift_origin returned without a shift although xopt is not the origin.  *)
ShiftOriginThresholdWitness ==
    /\ last.op = "shift_origin" /\ last.outcome = "kept"
    /\ \E i \in 1..Len(models.xl) : ~IsZero(models.xpt[models.kopt][i])
    /\ ~IsZero(last.arg)

(* C9: an origin shift by xi = xopt adds xi to xbase and takes it from     *)
(* every point and from xl and xu, so that xbase + xpt[k], xbase + xl and  *)
(* xbase + xu are those of before and xopt is the origin; the residuals of *)
(* the linear constraints at every point are those of before; and kopt,    *)
(* fval, cvalub, cvaleq, rval, zmat and idz are unchanged.                 *)
ShiftPreservesAbsolute ==
    [][(ShiftOriginCalled /\ last'.outcome = "shifted") =>
         LET xi == models.xpt[models.kopt]
         IN /\ tr'.xbase = VAdd(tr.xbase, xi)
            /\ \A k \in 1..Npt :
                  /\ models'.xpt[k] = VSub(models.xpt[k], xi)
                  /\ VAdd(tr'.xbase, models'.xpt[k]) = VAdd(tr.xbase, models.xpt[k])
                  /\ VSub(MatVec(models'.aub, models'.xpt[k]), models'.bub)
                        = VSub(MatVec(models.aub, models.xpt[k]), models.bub)
                  /\ VSub(MatVec(models'.aeq, models'.xpt[k]), models'.beq)
                        = VSub(MatVec(models.aeq, models.xpt[k]), models.beq)
            /\ models'.xl = VSub(models.xl, xi)
            /\ models'.xu = VSub(models.xu, xi)
            /\ VAdd(tr'.xbase, models'.xl) = VAdd(tr.xbase, models.xl)
            /\ VAdd(tr'.xbase, models'.xu) = VAdd(tr.xbase, models.xu)
            /\ models'.xpt[models'.kopt] = ZeroVec(Len(xi))
            /\ models'.kopt = models.kopt
            /\ models'.fval = models.fval
            /\ models'.cvalub = models.cvalub
            /\ models'.cvaleq = models.cvaleq
            /\ models'.rval = models.rval
            /\ models'.zmat = models.zmat
            /\ models'.idz = models.idz]_vars

(* An origin shift by a vector other than zero on a problem with a linear  *)
(* constraint.                                                             *)
ShiftPreservesAbsoluteWitness ==
    /\ last.op = "shift_origin" /\ last.outcome = "shifted"
    /\ Len(models.bub) + Len(models.beq) > 0
    /\ tr.xbase # prob.x0

(* C10: in every reachable state 0 <= idz <= npt - n - 1, whatever the     *)
(* signs of sigma and beta and wherever idz stands, and an update changes  *)
(* idz by at most one.                                                     *)
IdzWithinRange ==
    /\ [](0 <= models.idz /\ models.idz <= prob.npt - prob.n - 1)
    /\ [][Abs(models'.idz - models.idz) <= 1]_vars

(* idz has reached the number of columns of a zmat of several columns.     *)
IdzWithinRangeWitness ==
    /\ last.op = "update"
    /\ models.nz >= 2
    /\ models.idz = models.nz

(* C11: in every reachable state both penalty coefficients are at least 0; *)
(* penub is not zero only on a problem with a linear or nonlinear          *)
(* inequality constraint and peneq only on one with a linear or nonlinear  *)
(* equality constraint; both are 0 after construction, and a coefficient   *)
(* leaves 0 only in the doubling of a trust-region update.                 *)
PenaltiesNonnegative ==
    /\ [](/\ RLe(Zero, tr.penub) /\ RLe(Zero, tr.peneq)
          /\ ~IsZero(tr.penub) => Len(models.bub) + Len(models.cub) > 0
          /\ ~IsZero(tr.peneq) => Len(models.beq) + Len(models.ceq) > 0
          /\ (last.op = "init") => (IsZero(tr.penub) /\ IsZero(tr.peneq)))
    /\ [][((IsZero(tr.penub) /\ ~IsZero(tr'.penub))
             \/ (IsZero(tr.peneq) /\ ~IsZero(tr'.peneq)))
           => (UpdateCalled /\ tr.knew = 0)]_vars

(* The doubling has raised penub from 0 on a problem with inequality       *)
(* constraints only and moved kopt; peneq is still 0.                      *)
PenaltiesNonnegativeWitness ==
    /\ last.op = "update" /\ last.outcome = "restart"
    /\ RLt(Zero, tr.penub) /\ IsZero(tr.peneq)
    /\ Len(models.bub) + Len(models.cub) > 0
    /\ Len(models.beq) + Len(models.ceq) = 0

(* The options are processed: check_options has returned.                  *)
OptionsChecked == last.op \in {"check_options", "adjust"}
Given(key) == key \in DOMAIN prob.options

RadiiOrdered ==
    (last.op = "adjust") =>
        /\ RLe(tr.options["rhoend"], tr.options["rhobeg"])
        /\ \A i \in 1..prob.n :
              RLe(RMul(Two, tr.options["rhobeg"]), Span(prob.xl, prob.xu)[i])

(* The constructor has clamped rhobeg by the bounds for a call that gave   *)
(* rhoend above the clamped rhobeg and omitted rhobeg.                     *)
RadiiOrderedWitness ==
    /\ last.op = "adjust"
    /\ Given("rhoend") /\ ~Given("rhobeg")
    /\ RLt(tr.options["rhobeg"], prob.options["rhoend"])
    /\ RLt(Zero, tr.options["rhobeg"])

(* C14: for every x0 and bounds with xl <= xu, the adjusted initial guess  *)
(* is within the bounds and each of its components is xl[i], is xu[i], or  *)
(* is at least the clamped rhobeg away from both xl[i] and xu[i].          *)
GuessClearOfBounds ==
    (last.op = "adjust") =>
        \A i \in 1..prob.n :
            /\ RLe(prob.xl[i], tr.x0[i]) /\ RLe(tr.x0[i], prob.xu[i])
            /\ \/ tr.x0[i] = prob.xl[i]
               \/ tr.x0[i] = prob.xu[i]
               \/ /\ RLe(RAdd(prob.xl[i], tr.options["rhobeg"]), tr.x0[i])
                  /\ RLe(tr.x0[i], RSub(prob.xu[i], tr.options["rhobeg"]))

(* An initial guess of two components: one was nearer than rhobeg to its   *)
(* upper bound and is moved away from it, one was outside and is on its    *)
(* bound.                                                                  *)
GuessClearOfBoundsWitness ==
    /\ last.op = "adjust"
    /\ prob.n = 2
    /\ RLt(Zero, tr.options["rhobeg"])
    /\ \E i, j \in 1..2 :
          /\ RLt(prob.xl[i], prob.x0[i]) /\ RLt(prob.x0[i], prob.xu[i])
          /\ tr.x0[i] = RSub(prob.xu[i], tr.options["rhobeg"])
          /\ tr.x0[i] # prob.x0[i]
          /\ RLt(prob.x0[j], prob.xl[j]) /\ tr.x0[j] = prob.xl[j]

(* C15: at the end of construction kopt is the first index of least merit  *)
(* among the npt initial points; both penalty coefficients are 0 then, so  *)
(* the merit of each point is its fval and kopt is the first argmin of     *)
(* fval.                                                                   *)
InitialBestIsArgmin ==
    (last.op = "init") =>
        /\ IsZero(tr.penub) /\ IsZero(tr.peneq)
        /\ \A k \in 1..Npt :
              /\ MeritK(tr, models, k) = models.fval[k]
              /\ RLe(MeritK(tr, models, models.kopt), MeritK(tr, models, k))
              /\ RLe(models.fval[models.kopt], models.fval[k])
              /\ k < models.kopt => RLt(models.fval[models.kopt], models.fval[k])

(* The solver is constructed for a problem with constraints whose least    *)
(* fval is that of two initial points, and kopt is the first of them.      *)
InitialBestIsArgminWitness ==
    /\ last.op = "init"
    /\ Len(models.bub) > 0
    /\ \E k \in 1..Npt : k > models.kopt /\ models.fval[k] = models.fval[models.kopt]

(* C16: the merit function drops the terms of a zero coefficient.  With    *)
(* penub = 0 the merit of a point, and the merit of the models there, are  *)
(* those of the problem without its linear and nonlinear inequality        *)
(* constraints, whatever the multipliers and the constraint values; with   *)
(* peneq = 0 they are those of the problem without its equality            *)
(* constraints; with both 0 the merit is the objective value and the merit *)
(* of the models is the value of the objective model.                      *)
MeritDropsTerms ==
    \A k \in 1..Npt :
        LET x == models.xpt[k]
            fx == models.fval[k]
            cubx == models.cvalub[k]
            ceqx == models.cvaleq[k]
            tu == [tr EXCEPT !.penub = Zero]
            te == [tr EXCEPT !.peneq = Zero]
            tz == [tr EXCEPT !.penub = Zero, !.peneq = Zero]
            mNoUb == [models EXCEPT !.aub = <<>>, !.bub = <<>>, !.cub = <<>>]
            mNoEq == [models EXCEPT !.aeq = <<>>, !.beq = <<>>, !.ceq = <<>>]
            NoUb(s) == [s EXCEPT !.lmlub = <<>>, !.lmnlub = <<>>]
            NoEq(s) == [s EXCEPT !.lmleq = <<>>, !.lmnleq = <<>>]
        IN /\ Merit(tu, models, x, fx, cubx, ceqx)
                = Merit(NoUb(tu), mNoUb, x, fx, <<>>, ceqx)
           /\ MeritModel(tu, models, x) = MeritModel(NoUb(tu), mNoUb, x)
           /\ Merit(te, models, x, fx, cubx, ceqx)
                = Merit(NoEq(te), mNoEq, x, fx, cubx, <<>>)
           /\ MeritModel(te, models, x) = MeritModel(NoEq(te), mNoEq, x)
           /\ Merit(tz, models, x, fx, cubx, ceqx) = fx
           /\ MeritModel(tz, models, x) = ModelObj(models, x)
           /\ (IsZero(tr.penub) /\ IsZero(tr.peneq)) => MeritK(tr, models, k) = fx

(* Both coefficients are 0 while a multiplier is not, on a problem with an *)
(* inequality and an equality constraint, and a point violates one.        *)
MeritDropsTermsWitness ==
    /\ IsZero(tr.penub) /\ IsZero(tr.peneq)
    /\ Len(models.bub) + Len(models.cub) > 0
    /\ Len(models.beq) + Len(models.ceq) > 0
    /\ \E lm \in {tr.lmlub, tr.lmnlub, tr.lmleq, tr.lmnleq} :
          \E i \in 1..Len(lm) : ~IsZero(lm[i])
    /\ \E k \in 1..Npt : RLt(Zero, models.rval[k])

(* C19: at initialization the best point is selected with the ordering of  *)
(* get_best_point: no initial point is preferred to kopt by less_merit,    *)
(* that is, none has less merit, nor the same merit and a smaller rval     *)
(* (the penalty coefficients are 0 then).                                  *)
InitialBestByOrdering ==
    (last.op = "init") =>
        \A k \in 1..Npt :
            ~LessMerit(tr, MeritK(tr, models, k), models.rval[k],
                       MeritK(tr, models, models.kopt), models.rval[models.kopt])

DoublingLoopTerminates ==
    last.outcome # "hang"


(* C21: less_merit is a strict order on the pairs (merit, rval) for a      *)
(* fixed penalty state: no point beats itself, and there are no two points *)
(* A and B such that A beats B and B beats A.                              *)
LessMeritIsStrict ==
    (last.op = "less_merit") => (~last.ret.AA /\ ~(last.ret.AB /\ last.ret.BA))


(* C22: after update_multipliers the multiplier of every linear or         *)
(* nonlinear inequality constraint that is not active at the best point is *)
(* 0 and that of every active one is >= 0 (nnls returns its first          *)
(* components nonnegative), each multiplier vector has the length of its   *)
(* block of constraints, and without constraints the multipliers are left  *)
(* as they were.  update leaves the multipliers as update_multipliers      *)
(* made them.                                                              *)
MultipliersComplementary ==
    [][UpdateCalled =>
        LET t1 == UpdateMultipliers(tr, models, last'.arg.lm)
            rub == VSub(MatVec(models.aub, models.xpt[models.kopt]), models.bub)
            cub == models.cvalub[models.kopt]
        IN /\ Len(t1.lmlub) = Len(models.bub) /\ Len(t1.lmnlub) = Len(models.cub)
           /\ Len(t1.lmleq) = Len(models.beq) /\ Len(t1.lmnleq) = Len(models.ceq)
           /\ \A i \in 1..Len(models.bub) :
                IF IsZero(rub[i]) THEN RLe(Zero, t1.lmlub[i]) ELSE IsZero(t1.lmlub[i])
           /\ \A i \in 1..Len(models.cub) :
                IF IsZero(cub[i]) THEN RLe(Zero, t1.lmnlub[i]) ELSE IsZero(t1.lmnlub[i])
           /\ (Len(models.bub) + Len(models.cub) + Len(models.beq) + Len(models.ceq) = 0
                 => t1 = tr)
           /\ tr'.lmlub = t1.lmlub /\ tr'.lmnlub = t1.lmnlub
           /\ tr'.lmleq = t1.lmleq /\ tr'.lmnleq = t1.lmnleq]_vars

(* update has returned with the multiplier 1 for a linear inequality       *)
(* constraint, and the best point is now one where the constraint is not   *)
(* active.                                                                 *)
MultipliersComplementaryWitness ==
    /\ last.op = "update"
    /\ Len(models.bub) = 1
    /\ RLt(Zero, tr.lmlub[1])
    /\ ~IsZero(VSub(MatVec(models.aub, models.xpt[models.kopt]), models.bub)[1])


PairsFollow(first) ==
    (last.op = "init_xpt") =>
        \A k \in (2 * last.arg.n + 1)..(last.arg.npt - 1) :
            LET n == last.arg.n
                kk == k - first * n - 1
                shift == kk \div n
                ipt == kk - shift * n
                jpt == (ipt + shift) % n
                row == last.ret[k + 1]
            IN /\ {i \in 1..n : ~IsZero(row[i])} = {ipt + 1, jpt + 1}
               /\ row[ipt + 1] = last.ret[ipt + 2][ipt + 1]
               /\ row[jpt + 1] = last.ret[jpt + 2][jpt + 1]

(* C24, as amended: for every initial interpolation point k > 2n the two   *)
(* activated coordinates are ipt and jpt computed by                       *)
(* shift = floor((k-n-1)/n), ipt = k-n-1-shift*n, jpt = (ipt+shift) mod n, *)
(* and the point takes the first-stage displacements xpt[ipt+1, ipt] and   *)
(* xpt[jpt+1, jpt] on those coordinates.                                   *)
PairSchedule ==
    PairsFollow(1)

(* The points of a set with n = 4 and npt = 15 (shift takes the values 1   *)
(* and 2), with a variable on its upper bound.                             *)
PairScheduleWitness ==
    /\ last.op = "init_xpt"
    /\ last.arg.n = 4 /\ last.arg.npt = 15
    /\ \E i \in 1..4 : IsZero(last.arg.xu[i])
    /\ ~IsZero(last.ret[15][2]) /\ ~IsZero(last.ret[15][4])

(* C24, as stated: the same with shift = floor((k-2n-1)/n) and             *)
(* ipt = k-2n-1-shift*n.                                                   *)
PairScheduleFromZero ==
    PairsFollow(2)


(* The coordinates that point k of the initial set activates (k counts     *)
(* from 0, the coordinates from 1).                                        *)
Activated(k) == {i \in 1..last.arg.n : ~IsZero(last.ret[k + 1][i])}

(* C25: for every n and every admissible npt <= (n+1)(n+2)/2 each initial  *)
(* point k > 2n activates two different coordinates, different indices     *)
(* k > 2n activate different unordered pairs of coordinates, and no two    *)
(* initial interpolation points coincide.                                  *)
PairsDistinct ==
    (last.op = "init_xpt") =>
        LET n == last.arg.n
            npt == last.arg.npt
        IN /\ \A k \in (2 * n + 1)..(npt - 1) :
                /\ PairIpt(k, n) # PairJpt(k, n)
                /\ Activated(k) = {PairIpt(k, n) + 1, PairJpt(k, n) + 1}
                /\ \A j \in (2 * n + 1)..(npt - 1) :
                      j # k => Activated(j) # Activated(k)
           /\ \A j, k \in 1..npt : j # k => last.ret[j] # last.ret[k]

(* The full set for n = 4: the last two points have the shift n/2 and      *)
(* activate the pairs {0, 2} and {1, 3}.                                   *)
PairsDistinctWitness ==
    /\ last.op = "init_xpt"
    /\ last.arg.n = 4 /\ last.arg.npt = 15
    /\ Activated(13) = {1, 3}
    /\ Activated(14) = {2, 4}


(* The radii of trust_region_step(delta), by their squares: the normal     *)
(* step is computed in the ball of radius 0.8 delta / sqrt(2), and the     *)
(* returned step is the sum of the normal step (zero without constraints)  *)
(* and the tangential step.                                                *)
NormalBall ==
    /\ last.arg.nradsq = RMul(<<8, 25>>, RSq(last.arg.delta))
    /\ last.arg.step = VAdd(last.arg.nstep, last.arg.tstep)
    /\ (Len(models.bub) + Len(models.cub) + Len(models.beq) + Len(models.ceq) = 0
          => last.arg.nstep = ZeroVec(Len(models.xl)))

(* C26, as amended: in trust_region_step(delta) the normal step n* is      *)
(* computed in a ball of radius 0.8 delta / sqrt(2); the tangential step   *)
(* is computed in the residual ball of radius sqrt(delta^2/2 - |n*|^2)     *)
(* when n* is not negligible, and in the ball of radius delta when n* is   *)
(* zero or negligible (as it is without constraints); the returned step is *)
(* n* + t*.                                                                *)
StepRadii ==
    (last.op = "trust_region_step") =>
        /\ NormalBall
        /\ last.arg.tradsq =
              IF IsZero(Dot(last.arg.nstep, last.arg.nstep))
              THEN RSq(last.arg.delta)
              ELSE RSub(RMul(Half, RSq(last.arg.delta)),
                        Dot(last.arg.nstep, last.arg.nstep))

(* trust_region_step has returned the sum of a normal step and a           *)
(* tangential step, neither of them zero.                                  *)
StepRadiiWitness ==
    /\ last.op = "trust_region_step"
    /\ ~IsZero(Dot(last.arg.nstep, last.arg.nstep))
    /\ ~IsZero(Dot(last.arg.tstep, last.arg.tstep))

(* C26, as stated: the tangential step is computed in the residual ball of *)
(* radius sqrt(delta^2/2 - |n*|^2) for every normal step n*, a zero or     *)
(* negligible one and the case of no constraints included.                 *)
StepRadiiResidualAlways ==
    (last.op = "trust_region_step") =>
        /\ NormalBall
        /\ last.arg.tradsq = RSub(RMul(Half, RSq(last.arg.delta)),
                                  Dot(last.arg.nstep, last.arg.nstep))


(* C27, as amended: the geometry-improvement step returns the constrained  *)
(* Cauchy candidate if and only if the update denominator                  *)
(* sigma = vlag[knew]^2 + alpha*beta of the line candidate, with its sign, *)
(* is less than the predicted value of the Cauchy candidate and that value *)
(* exceeds tol*max(1, |sigma|); otherwise it returns the line candidate.   *)
GeometryChoice ==
    (last.op = "improve_geometry") =>
        ((last.ret = "salt") <=>
            /\ RLt(last.arg.sigma, last.arg.cauchy)
            /\ RLt(RMul(last.arg.tol, RMax(One, RAbs(last.arg.sigma))),
                   last.arg.cauchy))

(* The Cauchy candidate is returned for a line candidate whose denominator *)
(* is negative and larger in absolute value than the Cauchy value.         *)
GeometryChoiceWitness ==
    /\ last.op = "improve_geometry"
    /\ last.ret = "salt"
    /\ RLt(last.arg.sigma, Zero)
    /\ RLt(last.arg.cauchy, RAbs(last.arg.sigma))

(* C27, as stated: the Cauchy candidate is returned only if its predicted  *)
(* value exceeds the absolute value |vlag[knew]^2 + alpha*beta| of the     *)
(* denominator of the line candidate.                                      *)
GeometryChoiceByAbs ==
    (last.op = "improve_geometry" /\ last.ret = "salt") =>
        RLt(RAbs(last.arg.sigma), last.arg.cauchy)


(* C28: reduce_penalty_coefficients never increases a penalty coefficient: *)
(* after the call each of the two coefficients is at most what it was      *)
(* before the call (a coefficient that is 0 stays 0), and the call changes *)
(* nothing else (kopt, the multipliers, the interpolation set and the      *)
(* models are as they were).                                               *)
ReductionNeverIncreases ==
    [][(ncall' = ncall + 1 /\ last'.op = "reduce_penalty_coefficients") =>
          /\ RLe(tr'.penub, tr.penub)
          /\ RLe(tr'.peneq, tr.peneq)
          /\ tr' = [tr EXCEPT !.penub = tr'.penub, !.peneq = tr'.peneq]
          /\ models' = models]_vars


(* C29: after update returns normally on a trust-region step the solver is *)
(* still in trust-region mode: is_model_step is false (knew is None) until *)
(* the driver calls prepare_model_step.                                    *)
UpdateKeepsTrustRegionMode ==
    /\ [][(UpdateReturned /\ tr.knew = 0) => tr'.knew = 0]_vars
    /\ [][(tr.knew = 0 /\ tr'.knew # 0) =>
            (ncall' = ncall + 1 /\ last'.op = "prepare_model_step")]_vars


(* C30: update never replaces the best point: for any sequence of calls of *)
(* the driver the index of the interpolation point that the swap           *)
(* overwrites (it is left in knew) differs from kopt as it is at the time  *)
(* of the swap, whether update chooses the index (knew is None) or uses a  *)
(* pending knew.  Stated here for the steps that are not zero only (a zero *)
(* step makes every score zero, and the first point is then overwritten,   *)
(* by itself when it is the best point).                                   *)
SwapSparesBest ==
    [][(UpdateReturned /\ \E i \in 1..Len(last'.arg.step) : ~IsZero(last'.arg.step[i]))
         => tr'.knew # models.kopt]_vars

====
